---- MODULE Spec2Model ----
(***************************************************************************)
(* A model of the Kompass decision assistant (kishorkishor/MY_OWN_AI).     *)
(*                                                                         *)
(* Part A  App orchestration (src/unnamed/part_000): chat sends, the       *)
(*         optimistic background mind-map request, the full analysis.      *)
(* Part B  The JSON decoder of the structuring calls                       *)
(*         (src/services/deepseekService.ts), on texts of characters.      *)
(* Part C  The instant mind-map extractor (src/utils/instantMindMap.ts):   *)
(*         its regular expressions are matched character by character.     *)
(* Part D  The MindMap component (src/components/SWOTView.tsx): the merge  *)
(*         of a new tree with the nodes the simulation works on.           *)
(*                                                                         *)
(* Promises are modelled by their settled state.  A network response is an *)
(* environment step; the continuation a handler attached to it runs in the *)
(* same step (single-threaded event loop, nothing can run in between).     *)
(***************************************************************************)
EXTENDS Integers, Sequences, FiniteSets, TLC

VARIABLES
    \* ---- Part A: React state of App (part_000:137-157)
    messages,            \* useState<Message[]>([])
    input,               \* useState('')
    isChatLoading,       \* useState(false)
    mindMapData,         \* useState<MindMapNode | null>(null)
    projectionData,      \* useState<ProjectionScenario[]>([])
    comparisonData,      \* useState<ComparisonData | null>(null)
    decisionTreeData,    \* useState<DecisionTreeData | null>(null)
    swotData,            \* useState<SWOTAnalysis | null>(null)
    costBenefitData,     \* useState<CostBenefitAnalysis | null>(null)
    timelineData,        \* useState<TimelineData | null>(null)
    isVisLoading,        \* useState(false)
    visError,            \* useState<string | null>(null)
    \* ---- Part A: activations of the async handlers
    sends,               \* one record per started handleSend / quick-action body
    timers,              \* pending setTimeout callbacks of handleQuickAction (FIFO)
    analyze,             \* the handleAnalyze activation (at most one: the button is disabled while isVisLoading)
    \* ---- Part A: updateMindMapBackground (part_000:153-185)
    isBackgroundUpdating,     \* useState(false)
    lastConversationHashRef,  \* useRef<string>('')
    background,               \* the updateMindMapBackground activation, and counts of its calls
    \* ---- Part A: observation only (not program state)
    lastResolved,        \* result of the mind-map generation that resolved most recently
    \* ---- Part B: one call of a generation function (deepseekService.ts:234-265)
    content,             \* data.choices?.[0]?.message?.content, as characters
    parts,               \* observation only: how content was put together
    parsed,              \* what cleanAndParseJSON(content) did
    generated,           \* the promise the generation function returned
    jsonPc,              \* "idle", "responded", "settled"
    \* ---- Part C: one call of generateInstantMindMap (instantMindMap.ts:10-53)
    instMessages,        \* the messages argument
    instClock,           \* observation only: the values Date.now() returned
    instTree,            \* the returned tree
    instPc,              \* "idle", "called", "returned"
    \* ---- Part D: the MindMap component (SWOTView.tsx:666-676)
    rawData,             \* the data prop
    layoutMode,          \* useState<'chaos' | 'organized'>('chaos')
    nodesRef,            \* useRef<any[]>([]): the array the simulation works on
    oldNodesMap,         \* the map the main effect built when it last ran
    previousNodes,       \* the array nodesRef.current held before the last reconciliation: its objects as they are now
    links,               \* the links handed to the link force
    \* ---- Part D: the node elements of the svg (SWOTView.tsx:902-924)
    shown,               \* per id, the number of g elements bound to a node of the working set
    exiting,             \* per id, the number of g elements in the exit transition
    exitSelection,       \* the ids of node.exit() at the last join
    \* ---- Part D: the simulation and the drag behaviour (SWOTView.tsx:786-863, 1220-1235)
    forces,              \* the forces of simulationRef.current, by name
    alphaTarget,         \* simulation.alphaTarget(), in tenths
    drag,                \* the drag gesture in progress and the object it was started on
    \* ---- Part E: one tree handed to sanitizeData (SWOTView.tsx:613-636)
    sanNode,             \* the node argument of the outermost call
    sanResult,           \* what the last call returned
    sanPc,               \* "idle", "called", "sanitized", "sanitized again"
    \* ---- Part F: one call of sendMessageStream (deepseekService.ts:172-229)
    sseStream,           \* observation only: the events the response body is made of
    sseReads,            \* the values reader.read() is still to return, as bytes
    sseDecoder,          \* the bytes the TextDecoder holds back (stream: true)
    sseBuffer,           \* let buffer
    sseYielded,          \* observation only: the chunks yielded so far
    sseFullResponse,     \* let fullResponse
    sseHistory,          \* conversationHistory, behind the system message
    ssePc                \* "idle", "reading", "returned"

appVars == <<messages, input, isChatLoading, mindMapData, projectionData,
             comparisonData, decisionTreeData, swotData, costBenefitData,
             timelineData, isVisLoading, visError, sends, timers, analyze,
             isBackgroundUpdating, lastConversationHashRef, background,
             lastResolved>>

bgVars == <<isBackgroundUpdating, lastConversationHashRef, background>>

jsonVars == <<content, parts, parsed, generated, jsonPc>>

\* Everything outside Part A.
instVars == <<instMessages, instClock, instTree, instPc>>

mmVars == <<rawData, layoutMode, nodesRef, oldNodesMap, previousNodes, links,
            shown, exiting, exitSelection, forces, alphaTarget, drag>>

sanVars == <<sanNode, sanResult, sanPc>>

\* The calls of functions that are modelled on their own.
sseVars == <<sseStream, sseReads, sseDecoder, sseBuffer, sseYielded, sseFullResponse,
             sseHistory, ssePc>>

callVars == <<sanVars, sseVars>>

nonAppVars == <<jsonVars, instVars, mmVars, callVars>>

vars == <<appVars, jsonVars, instVars, mmVars, callVars>>

----------------------------------------------------------------------------
(* Bounds of the model *)

MaxSends == 2         \* SpecChat: handleSend / quick-action activations per behaviour
MaxChunks == 1        \* stream chunks delivered per behaviour
MaxAnalyzeSends == 1  \* SpecAnalyze: handleSend activations per behaviour
MaxBackground == 3    \* calls of updateMindMapBackground per behaviour
MaxBackgroundSends == 1  \* SpecBackground: handleSend activations per behaviour
MaxFailureUpdates == 1   \* SpecFailures: calls of updateMindMapBackground per behaviour

----------------------------------------------------------------------------
(* Part A: values *)

\* JS null for the visualisation fields; the initial [] of projectionData.
Null == [kind |-> "null", n |-> 0, from |-> 0]
EmptyList == [kind |-> "emptylist", n |-> 0, from |-> 0]

\* The value a structuring call resolves with when the remote answer decodes:
\* opaque, identified by its kind and, for the background request of a send, by
\* that send (n) and the length of the history it was generated from (n and
\* from are 0 for the calls of handleAnalyze).
Result(kind, n, from) == [kind |-> kind, n |-> n, from |-> from]

NoError == "null"
AnalysisFailedMessage == "Could not generate analysis. Please try elaborating on your situation."

\* A settled promise.
Fulfilled(v) == [state |-> "fulfilled", value |-> v]
Rejected == [state |-> "rejected", value |-> Null]
Pending == [state |-> "pending", value |-> Null]

\* The seven structuring calls of handleAnalyze, in the order of the Promise.all array.
Kinds == <<"mindmap", "projection", "comparison", "tree", "swot", "costbenefit", "timeline">>
KindSet == {Kinds[i] : i \in 1..Len(Kinds)}

\* What the user can type into the chat box.
Inputs == {" ", "hi"}
Trim(s) == IF s = " " THEN "" ELSE s

\* Message texts are sequences of pieces: the typed text, stream chunks, an error text.
UserText(s) == <<[src |-> "user", s |-> 0, k |-> 0, str |-> s]>>
Chunk(s, k) == [src |-> "chunk", s |-> s, k |-> k, str |-> ""]
ErrorText == <<[src |-> "error", s |-> 0, k |-> 0, str |-> "Error: "]>>

UserMsg(s) == [role |-> "user", text |-> UserText(s), isStreaming |-> FALSE]
Placeholder == [role |-> "model", text |-> <<>>, isStreaming |-> TRUE]

----------------------------------------------------------------------------
(* Part A: helpers translated from part_000 *)

\* JS truthiness of a value held in a visualisation variable.
Truthy(v) == v # Null

\* A safeGenerate that lets the rejection through.
SafeGenerate_rethrow(p) == p

\* safeGenerate (part_000:242-249): await the promise; on rejection log and return null.
SafeGenerate(p) == IF p.state = "rejected" THEN Fulfilled(Null) ELSE p

\* Promise.all over the seven wrapped calls (part_000:259-267): rejects as soon as
\* one element rejects, else fulfils with all the values.
PromiseAll(ps) ==
    IF \E k \in KindSet : ps[k].state = "rejected"
    THEN [state |-> "rejected", values |-> [k \in KindSet |-> Null]]
    ELSE [state |-> "fulfilled", values |-> [k \in KindSet |-> ps[k].value]]

\* A test that asks every call to succeed.
AnySuccess_all(v) == \A k \in KindSet : Truthy(v[k]) /\ v[k] # EmptyList

\* part_000:271: mapData || (projData && projData.length > 0) || compData || ...
AnySuccess(v) ==
    \/ Truthy(v["mindmap"])
    \/ (Truthy(v["projection"]) /\ v["projection"] # EmptyList)
    \/ Truthy(v["comparison"])
    \/ Truthy(v["tree"])
    \/ Truthy(v["swot"])
    \/ Truthy(v["costbenefit"])
    \/ Truthy(v["timeline"])

\* prev.map((msg, idx) => idx === prev.length - 1 ? {...msg, text} : msg)
SetLastText(prev, text) ==
    [i \in 1..Len(prev) |-> IF i = Len(prev) THEN [prev[i] EXCEPT !.text = text] ELSE prev[i]]

\* prev.map((msg, idx) => idx === prev.length - 1 ? {...msg, isStreaming: false} : msg)
SetLastDone(prev) ==
    [i \in 1..Len(prev) |-> IF i = Len(prev) THEN [prev[i] EXCEPT !.isStreaming = FALSE] ELSE prev[i]]

\* The activation record of one send: its chat stream and its background
\* mind-map promise.  slot is observation only: where its placeholder was put.
NewSend(origin, n, updatedMessages) ==
    [origin |-> origin, n |-> n, from |-> Len(updatedMessages),
     pc |-> "streaming", fullResponse |-> <<>>, nChunks |-> 0,
     mm |-> Pending, slot |-> Len(updatedMessages) + 1]

\* Chunks delivered so far, over all streams.
RECURSIVE TotalChunks(_)
TotalChunks(ss) == IF ss = <<>> THEN 0 ELSE Head(ss).nChunks + TotalChunks(Tail(ss))

visFields == <<projectionData, comparisonData, decisionTreeData, swotData,
               costBenefitData, timelineData>>

----------------------------------------------------------------------------
(* Part A: actions *)

\* handleSend (part_000:188-214), up to the first await of the stream: the user
\* message and the streaming placeholder are appended, the mind-map request and
\* the chat stream are started.  The user has typed t into the chat box
\* (setInput(t)) and presses Enter, which calls handleSend whatever
\* isChatLoading is (ChatInterface.tsx:33-38).
HandleSend(t, limit) ==
    /\ Trim(t) # ""
    /\ Len(sends) + Len(timers) < limit
    /\ LET updatedMessages == Append(messages, UserMsg(t))
       IN /\ messages' = Append(updatedMessages, Placeholder)
          /\ sends' = Append(sends, NewSend("send", Len(sends) + 1, updatedMessages))
    /\ input' = ""
    /\ isChatLoading' = TRUE
    /\ UNCHANGED <<mindMapData, visFields, isVisLoading, visError, timers, analyze,
                   lastResolved>>
    /\ UNCHANGED <<bgVars, nonAppVars>>

\* handleQuickAction (part_000:312-315, 361): show the prompt and schedule the
\* body 100 ms later; the callback closes over this render's messages.  The
\* quick-action buttons are disabled while isChatLoading (part_005:68,104).
QuickActionClick ==
    /\ ~isChatLoading
    /\ Len(sends) + Len(timers) < MaxSends
    /\ input' = "deep-dive"
    /\ timers' = Append(timers, [prompt |-> "deep-dive", messages |-> messages])
    /\ UNCHANGED <<messages, isChatLoading, mindMapData, visFields, isVisLoading,
                   visError, sends, analyze, lastResolved>>
    /\ UNCHANGED <<bgVars, nonAppVars>>

\* The timer callback of handleQuickAction (part_000:315-337).
QuickActionFire ==
    /\ timers # <<>>
    /\ LET t == Head(timers)
           updatedMessages == Append(t.messages, UserMsg(t.prompt))
       IN /\ messages' = Append(updatedMessages, Placeholder)
          /\ sends' = Append(sends, NewSend("quick", Len(sends) + 1, updatedMessages))
    /\ timers' = Tail(timers)
    /\ input' = ""
    /\ isChatLoading' = TRUE
    /\ UNCHANGED <<mindMapData, visFields, isVisLoading, visError, analyze, lastResolved>>
    /\ UNCHANGED <<bgVars, nonAppVars>>

\* One chunk of the stream of send s arrives (part_000:216-223, 339-346).
StreamChunk(s) ==
    /\ sends[s].pc = "streaming"
    /\ TotalChunks(sends) < MaxChunks
    /\ LET full == Append(sends[s].fullResponse, Chunk(s, sends[s].nChunks + 1))
       IN /\ sends' = [sends EXCEPT ![s].fullResponse = full,
                                    ![s].nChunks = sends[s].nChunks + 1]
          /\ messages' = SetLastText(messages, full)
    /\ UNCHANGED <<input, isChatLoading, mindMapData, visFields, isVisLoading,
                   visError, timers, analyze, lastResolved>>
    /\ UNCHANGED <<bgVars, nonAppVars>>

\* The stream of send s ends normally (part_000:225-230, 236-238; 348-352, 357-359).
StreamEnd(s) ==
    /\ sends[s].pc = "streaming"
    /\ sends' = [sends EXCEPT ![s].pc = "done", ![s].fullResponse = <<>>]
    /\ messages' = SetLastDone(messages)
    /\ isChatLoading' = FALSE
    /\ UNCHANGED <<input, mindMapData, visFields, isVisLoading, visError, timers,
                   analyze, lastResolved>>
    /\ UNCHANGED <<bgVars, nonAppVars>>

\* The stream of send s throws (part_000:232-238; 353-359).
StreamFail(s) ==
    /\ sends[s].pc = "streaming"
    /\ sends' = [sends EXCEPT ![s].pc = "failed", ![s].fullResponse = <<>>]
    /\ messages' = Append(messages, [role |-> "model", text |-> ErrorText, isStreaming |-> FALSE])
    /\ isChatLoading' = FALSE
    /\ UNCHANGED <<input, mindMapData, visFields, isVisLoading, visError, timers,
                   analyze, lastResolved>>
    /\ UNCHANGED <<bgVars, nonAppVars>>

\* The background mind-map request of send s resolves (part_000:198-203, 323-326).
MindMapResolve(s) ==
    /\ sends[s].mm.state = "pending"
    /\ LET mapData == Result("mindmap", sends[s].n, sends[s].from)
       IN /\ sends' = [sends EXCEPT ![s].mm = Fulfilled(mapData)]
          /\ mindMapData' = IF Truthy(mapData) THEN mapData ELSE mindMapData
          /\ lastResolved' = mapData
    /\ UNCHANGED <<messages, input, isChatLoading, visFields, isVisLoading, visError,
                   timers, analyze>>
    /\ UNCHANGED <<bgVars, nonAppVars>>

\* A rejection handler that clears the graph instead of only logging.
MindMapReject_clears(s) ==
    /\ sends[s].mm.state = "pending"
    /\ sends' = [sends EXCEPT ![s].mm = Rejected]
    /\ mindMapData' = Null
    /\ UNCHANGED <<messages, input, isChatLoading, visFields, isVisLoading,
                   visError, timers, analyze, lastResolved>>
    /\ UNCHANGED <<bgVars, nonAppVars>>

\* The background mind-map request of send s rejects (part_000:204-206, 327-329).
MindMapReject(s) ==
    /\ sends[s].mm.state = "pending"
    /\ sends' = [sends EXCEPT ![s].mm = Rejected]
    /\ UNCHANGED <<messages, input, isChatLoading, mindMapData, visFields, isVisLoading,
                   visError, timers, analyze, lastResolved>>
    /\ UNCHANGED <<bgVars, nonAppVars>>

\* A handleAnalyze that goes on whatever the number of messages.
AnalyzeStart_anyLength ==
    /\ ~isVisLoading
    /\ isVisLoading' = TRUE
    /\ visError' = NoError
    /\ analyze' = [pc |-> "waiting", calls |-> [k \in KindSet |-> Pending]]
    /\ UNCHANGED <<messages, input, isChatLoading, mindMapData, visFields, sends,
                   timers, lastResolved>>
    /\ UNCHANGED <<bgVars, nonAppVars>>

\* handleAnalyze up to the await (part_000:252-267).  The button is disabled
\* while isVisLoading or with fewer than two messages (part_000:429).
AnalyzeStart ==
    /\ ~isVisLoading
    /\ Len(messages) >= 2
    /\ isVisLoading' = TRUE
    /\ visError' = NoError
    /\ analyze' = [pc |-> "waiting", calls |-> [k \in KindSet |-> Pending]]
    /\ UNCHANGED <<messages, input, isChatLoading, mindMapData, visFields, sends,
                   timers, lastResolved>>
    /\ UNCHANGED <<bgVars, nonAppVars>>

\* generateMindMapData(messages) of the running analysis settles.  Nothing is
\* applied yet: the value waits in the Promise.all array.
AnalyzeMindMapSettle(ok) ==
    /\ analyze.pc = "waiting"
    /\ analyze.calls["mindmap"].state = "pending"
    /\ LET mapData == Result("mindmap", 0, 0)
       IN /\ analyze' = [analyze EXCEPT !.calls["mindmap"] =
                                            IF ok THEN Fulfilled(mapData) ELSE Rejected]
          /\ lastResolved' = IF ok THEN mapData ELSE lastResolved
    /\ UNCHANGED <<messages, input, isChatLoading, mindMapData, visFields, isVisLoading,
                   visError, sends, timers>>
    /\ UNCHANGED <<bgVars, nonAppVars>>

\* How each of the other six calls can settle: rejected, or fulfilled with a
\* decoded value; the projection call may also decode an empty list.
OutcomeChoices(k) == IF k = "projection" THEN {"ok", "empty", "rej"} ELSE {"ok", "rej"}

Settle(k, o) ==
    CASE o = "ok" -> Fulfilled(Result(k, 0, 0))
      [] o = "empty" -> Fulfilled(EmptyList)
      [] OTHER -> Rejected

\* The last of the seven calls settles and the continuation of handleAnalyze
\* runs (part_000:269-289).  The moments at which the six calls other than the
\* mind-map call settle are not observable by the program before this point, so
\* their outcomes are drawn here.
AnalyzeFinish ==
    /\ analyze.pc = "waiting"
    /\ analyze.calls["mindmap"].state # "pending"
    /\ \E proj \in OutcomeChoices("projection"), oks \in SUBSET (KindSet \ {"mindmap", "projection"}) :
       \E calls \in {[k \in KindSet |->
                        CASE k = "mindmap" -> analyze.calls[k]
                          [] k = "projection" -> Settle(k, proj)
                          [] OTHER -> Settle(k, IF k \in oks THEN "ok" ELSE "rej")]} :
       \E all \in {PromiseAll([k \in KindSet |-> SafeGenerate(calls[k])])} :
       \E thrown \in {all.state = "rejected" \/ ~AnySuccess(all.values)} :
         /\ analyze' = [pc |-> "idle", calls |-> calls]
         /\ IF thrown
            THEN /\ visError' = IF all.state = "rejected"
                                THEN "Generation failed"
                                ELSE AnalysisFailedMessage
                 /\ UNCHANGED <<mindMapData, visFields>>
            ELSE /\ mindMapData' = all.values["mindmap"]
                 /\ projectionData' = IF Truthy(all.values["projection"])
                                      THEN all.values["projection"] ELSE EmptyList
                 /\ comparisonData' = all.values["comparison"]
                 /\ decisionTreeData' = all.values["tree"]
                 /\ swotData' = all.values["swot"]
                 /\ costBenefitData' = all.values["costbenefit"]
                 /\ timelineData' = all.values["timeline"]
                 /\ visError' = visError
    /\ isVisLoading' = FALSE
    /\ UNCHANGED <<messages, input, isChatLoading, sends, timers, lastResolved>>
    /\ UNCHANGED <<bgVars, nonAppVars>>

----------------------------------------------------------------------------
(* Part A: updateMindMapBackground (part_000:153-185) *)

\* The number of characters of a piece of a message text: a typed text, a
\* stream delta (which can be longer than the prefix the hash keeps), the
\* text of an error report.
Chars(piece) ==
    CASE piece.src = "chunk" -> 60
      [] piece.src = "error" -> 30
      [] piece.str = " " -> 1
      [] piece.str = "hi" -> 2
      [] OTHER -> 9

HashPrefix == 50

\* text.slice(0, n) on a text of pieces: each piece with the number of its
\* characters that are kept.
RECURSIVE SlicePieces(_, _)
SlicePieces(text, n) ==
    IF text = <<>> \/ n = 0 THEN <<>>
    ELSE IF Chars(Head(text)) <= n
         THEN <<[piece |-> Head(text), chars |-> Chars(Head(text))]>>
                \o SlicePieces(Tail(text), n - Chars(Head(text)))
         ELSE <<[piece |-> Head(text), chars |-> n]>>

\* getConversationHash: msgs.map(m => role:text.slice(0, 50)).join('|'), kept
\* as the list of its entries; the hash of no messages is the empty string.
GetConversationHash(msgs) ==
    [i \in 1..Len(msgs) |->
       [role |-> msgs[i].role, text |-> SlicePieces(msgs[i].text, HashPrefix)]]

\* No update running.  calls, last and failed are observation only: the number
\* of calls made, what the latest call did ("busy": returned because an update
\* was running, "same": returned because the hash was the recorded one,
\* "issued": sent the request), and whether a request has failed.
BackgroundIdle ==
    [pc |-> "idle", currentHash |-> <<>>, from |-> 0, calls |-> 0, last |-> "none",
     failed |-> FALSE]

\* A recorder that takes the hash of every request that comes back.
RecordHash_always(mapData, currentHash, last) == currentHash

\* if (mapData) lastConversationHashRef.current = currentHash
RecordHash(mapData, currentHash, last) == IF Truthy(mapData) THEN currentHash ELSE last

\* updateMindMapBackground up to its await (part_000:165-174): it returns at
\* once while an update is running or when the hash of the conversation is the
\* recorded one; else the request is issued.
BackgroundStart(limit) ==
    /\ background.calls < limit
    /\ \E currentHash \in {GetConversationHash(messages)} :
         IF isBackgroundUpdating
         THEN /\ background' = [background EXCEPT !.calls = @ + 1, !.last = "busy"]
              /\ UNCHANGED isBackgroundUpdating
         ELSE IF currentHash = lastConversationHashRef
         THEN /\ background' = [background EXCEPT !.calls = @ + 1, !.last = "same"]
              /\ UNCHANGED isBackgroundUpdating
         ELSE /\ background' = [background EXCEPT !.pc = "waiting",
                                                  !.currentHash = currentHash,
                                                  !.from = Len(messages),
                                                  !.calls = @ + 1,
                                                  !.last = "issued"]
              /\ isBackgroundUpdating' = TRUE
    /\ UNCHANGED <<messages, input, isChatLoading, mindMapData, visFields, isVisLoading,
                   visError, sends, timers, analyze, lastConversationHashRef, lastResolved>>
    /\ UNCHANGED nonAppVars

\* The request of the running update settles and the rest of the function
\* runs (part_000:174-184): safeGenerate turns a rejection into null.
BackgroundSettle(ok) ==
    /\ background.pc = "waiting"
    /\ \E p \in {SafeGenerate(IF ok THEN Fulfilled(Result("mindmap", 0, background.from))
                                    ELSE Rejected)} :
         /\ lastConversationHashRef' =
               RecordHash(p.value, background.currentHash, lastConversationHashRef)
         /\ mindMapData' = IF Truthy(p.value) THEN p.value ELSE mindMapData
         /\ lastResolved' = IF ok THEN p.value ELSE lastResolved
    /\ background' = [background EXCEPT !.pc = "idle",
                                        !.failed = IF ok THEN @ ELSE TRUE]
    /\ isBackgroundUpdating' = FALSE
    /\ UNCHANGED <<messages, input, isChatLoading, visFields, isVisLoading,
                   visError, sends, timers, analyze>>
    /\ UNCHANGED nonAppVars

----------------------------------------------------------------------------
(* Part B: texts *)

\* A text is a sequence of one-character strings; the backquote character is
\* written BQ.
BQ == "bq"
Fence == <<BQ, BQ, BQ>>
FenceJson == Fence \o <<"j", "s", "o", "n">>

Ws == {" ", "\n"}
Digits == {"0", "1", "2", "3", "4", "5", "6", "7", "8", "9"}

\* The character at position i, or a mark past the end.
At(s, i) == IF i \in 1..Len(s) THEN s[i] ELSE "EOF"

\* Does pat occur in s at position i?
MatchAt(s, i, pat) ==
    /\ i + Len(pat) - 1 <= Len(s)
    /\ \A k \in 1..Len(pat) : s[i + k - 1] = pat[k]

Contains(s, pat) == \E i \in 1..Len(s) : MatchAt(s, i, pat)

\* String.prototype.replace(/pat/g, ''): one left-to-right pass over s that
\* drops every non-overlapping occurrence of the literal pat.
RECURSIVE ReplaceFrom(_, _, _)
ReplaceFrom(s, i, pat) ==
    IF i > Len(s) THEN <<>>
    ELSE IF MatchAt(s, i, pat) THEN ReplaceFrom(s, i + Len(pat), pat)
    ELSE <<s[i]>> \o ReplaceFrom(s, i + 1, pat)

ReplaceAll(s, pat) == ReplaceFrom(s, 1, pat)

Max(a, b) == IF a >= b THEN a ELSE b

\* indexOf / lastIndexOf of one character, positions counted from 1, 0 for the
\* -1 of JavaScript.
IndexOf(s, c) ==
    IF \E i \in 1..Len(s) : s[i] = c
    THEN CHOOSE i \in 1..Len(s) : s[i] = c /\ \A k \in 1..(i - 1) : s[k] # c
    ELSE 0

\* A lastIndexOf that finds the first occurrence.
LastIndexOf_first(s, c) == IndexOf(s, c)

LastIndexOf(s, c) ==
    IF \E i \in 1..Len(s) : s[i] = c
    THEN CHOOSE i \in 1..Len(s) : s[i] = c /\ \A k \in (i + 1)..Len(s) : s[k] # c
    ELSE 0

----------------------------------------------------------------------------
(* Part B: JSON.parse on the texts of the model: objects, arrays, strings     *)
(* without escapes, unsigned integers, white space.                          *)

JStr(chars) == [t |-> "string", s |-> chars, items |-> <<>>]
JNum(chars) == [t |-> "number", s |-> chars, items |-> <<>>]
JArr(items) == [t |-> "array", s |-> <<>>, items |-> items]
JObj(members) == [t |-> "object", s |-> <<>>, items |-> members]
JNone == [t |-> "undefined", s |-> <<>>, items |-> <<>>]

\* new Error(message): an object whose only own data is the message.
Error(message) == [message |-> message]

Return(v) == [kind |-> "return", value |-> v, error |-> Error("")]
Throw(e) == [kind |-> "throw", value |-> JNone, error |-> e]

ParseFail == [ok |-> FALSE, v |-> JNone, next |-> 0]
ParseOk(v, next) == [ok |-> TRUE, v |-> v, next |-> next]

RECURSIVE SkipWs(_, _)
SkipWs(s, i) == IF At(s, i) \in Ws THEN SkipWs(s, i + 1) ELSE i

\* Position of the quote that closes a string opened before i, 0 if there is none
\* (a raw line break inside a string is a syntax error).
RECURSIVE StringEnd(_, _)
StringEnd(s, i) ==
    IF i > Len(s) \/ s[i] = "\n" THEN 0
    ELSE IF s[i] = "\"" THEN i
    ELSE StringEnd(s, i + 1)

ParseString(s, i) ==
    IF At(s, i) # "\"" THEN ParseFail
    ELSE IF StringEnd(s, i + 1) = 0 THEN ParseFail
    ELSE ParseOk(JStr(SubSeq(s, i + 1, StringEnd(s, i + 1) - 1)), StringEnd(s, i + 1) + 1)

RECURSIVE DigitsEnd(_, _)
DigitsEnd(s, i) == IF At(s, i) \in Digits THEN DigitsEnd(s, i + 1) ELSE i

ParseNumber(s, i) ==
    IF DigitsEnd(s, i) = i \/ (DigitsEnd(s, i) > i + 1 /\ s[i] = "0") THEN ParseFail
    ELSE ParseOk(JNum(SubSeq(s, i, DigitsEnd(s, i) - 1)), DigitsEnd(s, i))

\* obj[key] = val: a repeated key keeps its place and takes the later value.
PutMember(members, key, val) ==
    IF \E m \in 1..Len(members) : members[m].key = key
    THEN [m \in 1..Len(members) |->
             IF members[m].key = key THEN [key |-> key, val |-> val] ELSE members[m]]
    ELSE Append(members, [key |-> key, val |-> val])

RECURSIVE ParseValue(_, _)
RECURSIVE ParseElements(_, _, _)
RECURSIVE ParseMembers(_, _, _)
RECURSIVE ParseMemberValue(_, _, _, _)

\* After value r of an array: "," and more, or "]".
AfterElement(s, r, acc) ==
    IF ~r.ok THEN ParseFail
    ELSE CASE At(s, SkipWs(s, r.next)) = "," ->
                  ParseElements(s, SkipWs(s, r.next) + 1, Append(acc, r.v))
           [] At(s, SkipWs(s, r.next)) = "]" ->
                  ParseOk(JArr(Append(acc, r.v)), SkipWs(s, r.next) + 1)
           [] OTHER -> ParseFail

ParseElements(s, i, acc) == AfterElement(s, ParseValue(s, i), acc)

\* After value r of member k of an object: "," and more, or "}".
AfterMember(s, k, r, acc) ==
    IF ~r.ok THEN ParseFail
    ELSE CASE At(s, SkipWs(s, r.next)) = "," ->
                  ParseMembers(s, SkipWs(s, r.next) + 1, PutMember(acc, k.v.s, r.v))
           [] At(s, SkipWs(s, r.next)) = "}" ->
                  ParseOk(JObj(PutMember(acc, k.v.s, r.v)), SkipWs(s, r.next) + 1)
           [] OTHER -> ParseFail

ParseMemberValue(s, k, i, acc) ==
    IF ~k.ok \/ At(s, SkipWs(s, k.next)) # ":" THEN ParseFail
    ELSE AfterMember(s, k, ParseValue(s, SkipWs(s, k.next) + 1), acc)

ParseMembers(s, i, acc) == ParseMemberValue(s, ParseString(s, SkipWs(s, i)), i, acc)

ParseValueAt(s, i) ==
    CASE At(s, i) = "{" ->
             IF At(s, SkipWs(s, i + 1)) = "}"
             THEN ParseOk(JObj(<<>>), SkipWs(s, i + 1) + 1)
             ELSE ParseMembers(s, i + 1, <<>>)
      [] At(s, i) = "[" ->
             IF At(s, SkipWs(s, i + 1)) = "]"
             THEN ParseOk(JArr(<<>>), SkipWs(s, i + 1) + 1)
             ELSE ParseElements(s, i + 1, <<>>)
      [] At(s, i) = "\"" -> ParseString(s, i)
      [] At(s, i) \in Digits -> ParseNumber(s, i)
      [] OTHER -> ParseFail

ParseValue(s, i) == ParseValueAt(s, SkipWs(s, i))

ParseWhole(s, r) ==
    IF r.ok /\ SkipWs(s, r.next) = Len(s) + 1
    THEN Return(r.v)
    ELSE Throw(Error("SyntaxError"))

\* JSON.parse(s): the decoded value, or a thrown SyntaxError.
JSONParse(s) == ParseWhole(s, ParseValue(s, 1))

----------------------------------------------------------------------------
(* Part B: cleanAndParseJSON and its caller *)

\* The catch block of cleanAndParseJSON (deepseekService.ts:96-100): whatever
\* was thrown, and the raw text, go to console.error; a new Error is thrown.
ParseFailure == Throw(Error("Failed to parse AI response structure."))

\* deepseekService.ts:78-93, once a structural start exists.
SliceAndParse(cleaned, firstBrace, firstBracket) ==
    LET start == IF firstBrace # 0 /\ (firstBracket = 0 \/ firstBrace < firstBracket)
                 THEN firstBrace
                 ELSE firstBracket
        fromStart == SubSeq(cleaned, start, Len(cleaned))
        lastBrace == LastIndexOf(fromStart, "}")
        lastBracket == LastIndexOf(fromStart, "]")
        end == Max(lastBrace, lastBracket)
        slice == IF end # 0 THEN SubSeq(fromStart, 1, end) ELSE fromStart
    IN JSONParse(slice)

\* cleanAndParseJSON (deepseekService.ts:66-101).
CleanAndParseJSON(raw) ==
    LET cleaned == ReplaceAll(ReplaceAll(raw, FenceJson), Fence)
        firstBrace == IndexOf(cleaned, "{")
        firstBracket == IndexOf(cleaned, "[")
    IN IF firstBrace = 0 /\ firstBracket = 0
       THEN ParseFailure
       ELSE IF SliceAndParse(cleaned, firstBrace, firstBracket).kind = "return"
            THEN SliceAndParse(cleaned, firstBrace, firstBracket)
            ELSE ParseFailure

\* The promise of an async generation function.
Resolved(v) == [state |-> "fulfilled", value |-> v, error |-> Error("")]
RejectedWith(e) == [state |-> "rejected", value |-> JNone, error |-> e]
NotSettled == [state |-> "pending", value |-> JNone, error |-> Error("")]
NotCalled == [kind |-> "none", value |-> JNone, error |-> Error("")]

\* What precedes the JSON text in a response: nothing, prose, fence markers (the
\* last but two becomes a fence once its json fence is removed), closing brackets,
\* and, outside the decoder's contract, opening ones.
Prefixes ==
  { <<>>,
    <<"S", "u", "r", "e", "!", " ">>,
    <<BQ, BQ, BQ, "j", "s", "o", "n", "\n">>,
    <<BQ, BQ, BQ, "\n">>,
    <<BQ, BQ>>,
    <<"o", "k", "}", " ">>,
    <<"]">>,
    <<BQ, BQ, BQ, BQ, BQ, "j", "s", "o", "n", BQ>>,
    <<"s", "o", " ", "{", "x", "}", ":", " ">>,
    <<"[", "1", "]", " ">> }

\* The JSON text of a response: objects and arrays (nested, with brackets inside
\* strings, with a repeated key, with white space, with a fence inside a
\* string), and texts that are no object or array text.
Bodies ==
  { <<"{", "\"", "a", "\"", ":", "1", "}">>,
    <<"[", "1", ",", "2", "]">>,
    <<"{", "\"", "a", "\"", ":", "{", "\"", "b", "\"", ":", "[", "1", ",", "\"", "}", "\"", "]", "}", "}">>,
    <<"[", "]">>,
    <<"{", "}">>,
    <<"[", "{", "\"", "a", "\"", ":", "1", "}", ",", "{", "\"", "b", "\"", ":", "2", "}", "]">>,
    <<"{", "\"", "a", "\"", ":", "1", ",", " ", "\"", "a", "\"", ":", "2", "}">>,
    <<"[", " ", "[", "1", "]", ",", "\n", "[", "2", "]", " ", "]">>,
    <<"{", "\"", "k", "\"", ":", "\"", "[", "x", "\"", "}">>,
    <<"{", "\"", "a", "\"", ":", "\"", BQ, BQ, BQ, "\"", "}">>,
    <<>>,
    <<"n", "o", " ", "j", "s", "o", "n", " ", "h", "e", "r", "e">>,
    <<"{", "\"", "a", "\"", ":", "1">>,
    <<"{", "a", ":", "1", "}">>,
    <<"[", "1", ",", "]">>,
    <<"1", "2">>,
    <<"{", "\"", "a", "\"", ":", "1", "}", "{", "\"", "b", "\"", ":", "2", "}">>,
    <<"{", "\"", "a", "\"", ":", "0", "1", "}">> }

\* What follows the JSON text.
Suffixes ==
  { <<>>,
    <<"\n", BQ, BQ, BQ>>,
    <<" ", "t", "h", "a", "n", "k", "s">>,
    <<" ", "{", "s", "e", "e">>,
    <<" ", "[", "1">>,
    <<BQ, BQ, BQ, "j", "s", "o", "n">>,
    <<"}">>,
    <<" ", "o", "k", "]">>,
    <<"\n">> }

IdleJSON ==
    /\ content = <<>>
    /\ parts = [prefix |-> <<>>, body |-> <<>>, suffix |-> <<>>]
    /\ parsed = NotCalled
    /\ generated = NotSettled
    /\ jsonPc = "idle"

\* The remote response of a structuring call has arrived; its content is any
\* prefix, body and suffix of the sets above, put together.
Responded ==
    /\ parts \in [prefix : Prefixes, body : Bodies, suffix : Suffixes]
    /\ content = parts.prefix \o parts.body \o parts.suffix
    /\ parsed = NotCalled
    /\ generated = NotSettled
    /\ jsonPc = "responded"

\* The end of a generation function (generateMindMapData,
\* deepseekService.ts:259-264; the other six end the same way):
\*   if (!text) throw new Error("No data generated"); return cleanAndParseJSON(text)
GenerateData ==
    /\ jsonPc = "responded"
    /\ IF content = <<>>
       THEN /\ parsed' = parsed
            /\ generated' = RejectedWith(Error("No data generated"))
       ELSE \E r \in {CleanAndParseJSON(content)} :
            /\ parsed' = r
            /\ generated' = IF r.kind = "return" THEN Resolved(r.value)
                                                 ELSE RejectedWith(r.error)
    /\ jsonPc' = "settled"
    /\ UNCHANGED <<content, parts, appVars, instVars, mmVars, callVars>>

----------------------------------------------------------------------------
(* Part C: characters and strings of JavaScript *)

Uppers == <<"A", "B", "C", "D", "E", "F", "G", "H", "I", "J", "K", "L", "M", "N", "O", "P", "Q", "R", "S", "T", "U", "V", "W", "X", "Y", "Z">>
Lowers == <<"a", "b", "c", "d", "e", "f", "g", "h", "i", "j", "k", "l", "m", "n", "o", "p", "q", "r", "s", "t", "u", "v", "w", "x", "y", "z">>
UpperSet == {Uppers[i] : i \in 1..Len(Uppers)}
LowerSet == {Lowers[i] : i \in 1..Len(Lowers)}

\* toLowerCase / toUpperCase of one character.
LowerOf == [c \in UpperSet |-> Lowers[CHOOSE i \in 1..Len(Uppers) : Uppers[i] = c]]
UpperOf == [c \in LowerSet |-> Uppers[CHOOSE i \in 1..Len(Lowers) : Lowers[i] = c]]
Lower(c) == IF c \in UpperSet THEN LowerOf[c] ELSE c
Upper(c) == IF c \in LowerSet THEN UpperOf[c] ELSE c
ToLowerCase(s) == [i \in 1..Len(s) |-> Lower(s[i])]

\* The classes \s, \w and \d of a regular expression.
Space == {" ", "\n", "\t"}
WordChars == UpperSet \cup LowerSet \cup Digits \cup {"_"}

\* s.trim()
RECURSIVE TrimStart(_)
TrimStart(s) == IF s # <<>> /\ Head(s) \in Space THEN TrimStart(Tail(s)) ELSE s

RECURSIVE TrimEnd(_)
TrimEnd(s) == IF s # <<>> /\ s[Len(s)] \in Space THEN TrimEnd(SubSeq(s, 1, Len(s) - 1)) ELSE s

TrimText(s) == TrimEnd(TrimStart(s))

\* s.includes(pat)
Includes(s, pat) == pat = <<>> \/ Contains(s, pat)

\* pat, given in lower case, occurs in s at position i whatever the case (flag i).
MatchAtCI(s, i, pat) ==
    /\ i + Len(pat) - 1 <= Len(s)
    /\ \A k \in 1..Len(pat) : Lower(s[i + k - 1]) = pat[k]

\* The first position from i on whose character is in (not in) the class, or
\* the position past the end.
RECURSIVE RunEnd(_, _, _)
RunEnd(s, i, class) == IF i <= Len(s) /\ s[i] \in class THEN RunEnd(s, i + 1, class) ELSE i

RECURSIVE RunEndNot(_, _, _)
RunEndNot(s, i, class) == IF i <= Len(s) /\ s[i] \notin class THEN RunEndNot(s, i + 1, class) ELSE i

\* s.split(c) for a one-character separator.
RECURSIVE Split(_, _)
Split(s, c) ==
    IF RunEndNot(s, 1, {c}) > Len(s) THEN <<s>>
    ELSE <<SubSeq(s, 1, RunEndNot(s, 1, {c}) - 1)>>
             \o Split(SubSeq(s, RunEndNot(s, 1, {c}) + 1, Len(s)), c)

\* s.split(/\s+/)
RECURSIVE SplitSpaces(_)
SplitSpaces(s) ==
    IF RunEndNot(s, 1, Space) > Len(s) THEN <<s>>
    ELSE <<SubSeq(s, 1, RunEndNot(s, 1, Space) - 1)>>
             \o SplitSpaces(SubSeq(s, RunEnd(s, RunEndNot(s, 1, Space), Space), Len(s)))

\* array.join(' ')
RECURSIVE JoinSpace(_)
JoinSpace(ws) ==
    IF ws = <<>> THEN <<>>
    ELSE IF Len(ws) = 1 THEN ws[1]
    ELSE ws[1] \o <<" ">> \o JoinSpace(Tail(ws))

\* array.filter(o => o) on strings; array.map(o => o.trim())
RECURSIVE NonEmpty(_)
NonEmpty(ws) ==
    IF ws = <<>> THEN <<>>
    ELSE IF Head(ws) = <<>> THEN NonEmpty(Tail(ws))
    ELSE <<Head(ws)>> \o NonEmpty(Tail(ws))

TrimEach(ws) == [i \in 1..Len(ws) |-> TrimText(ws[i])]

\* s.slice(0, n)
Slice0(s, n) == SubSeq(s, 1, IF Len(s) < n THEN Len(s) ELSE n)

----------------------------------------------------------------------------
(* Part C: the nodes of the instant tree *)

\* An id built by a template string: its prefix and the numbers put into it.
Id(prefix, ts, i, j) == [prefix |-> prefix, ts |-> ts, i |-> i, j |-> j]

\* A MindMapNode.  A missing isRecommendation is FALSE, missing children are <<>>.
Node(id, name, type, weight) ==
    [id |-> id, name |-> name, type |-> type, weight |-> weight,
     isRecommendation |-> FALSE, children |-> <<>>]

HasName(nodes, name) == \E n \in 1..Len(nodes) : nodes[n].name = name

\* item.split(/\s+/).length
WordCount(item) == Len(SplitSpaces(item))

----------------------------------------------------------------------------
(* Part C: extractFromAIMessage, step 1: /\[OPTIONS:\s*([^\]]+)\]/gi *)

OptionsOpen == <<"[", "o", "p", "t", "i", "o", "n", "s", ":">>

\* text.match(...) with flag g: the matched substrings, left to right.  A match
\* at i runs to the first "]" behind the opening, with at least one character
\* between them.
RECURSIVE OptionsMatches(_, _)
OptionsMatches(s, i) ==
    IF i > Len(s) THEN <<>>
    ELSE IF /\ MatchAtCI(s, i, OptionsOpen)
            /\ RunEndNot(s, i + Len(OptionsOpen), {"]"}) <= Len(s)
            /\ RunEndNot(s, i + Len(OptionsOpen), {"]"}) > i + Len(OptionsOpen)
         THEN <<SubSeq(s, i, RunEndNot(s, i + Len(OptionsOpen), {"]"}))>>
                  \o OptionsMatches(s, RunEndNot(s, i + Len(OptionsOpen), {"]"}) + 1)
         ELSE OptionsMatches(s, i + 1)

\* match.replace(/\[OPTIONS:\s*/i, '').replace(/\]$/, '') on a matched substring,
\* then split('|').map(o => o.trim()).filter(o => o).
Choices(match) ==
    LET rest == SubSeq(match, RunEnd(match, Len(OptionsOpen) + 1, Space), Len(match))
        optionsStr == IF rest # <<>> /\ rest[Len(rest)] = "]"
                      THEN SubSeq(rest, 1, Len(rest) - 1)
                      ELSE rest
    IN NonEmpty(TrimEach(Split(optionsStr, "|")))

\* Choice nodes that all get the weight of the first.
ChoiceNodes_sameWeight(choices, timestamp, i) ==
    [j \in 1..Len(choices) |->
        Node(Id("option", timestamp, i, j - 1), choices[j], "option", 7)]

\* Choice nodes whose weight depends on the clock.
ChoiceNodes_byClock(choices, timestamp, i) ==
    [j \in 1..Len(choices) |->
        Node(Id("option", timestamp, i, j - 1), choices[j], "option", 7 - timestamp)]

\* The nodes pushed for match number i (from 0): weight 7 - j for choice j (from 0).
ChoiceNodes(choices, timestamp, i) ==
    [j \in 1..Len(choices) |->
        Node(Id("option", timestamp, i, j - 1), choices[j], "option", 7 - (j - 1))]

RECURSIVE OptionNodesFrom(_, _, _)
OptionNodesFrom(matches, timestamp, i) ==
    IF i > Len(matches) THEN <<>>
    ELSE ChoiceNodes(Choices(matches[i]), timestamp, i - 1)
             \o OptionNodesFrom(matches, timestamp, i + 1)

ExtractOptions(s, timestamp) == OptionNodesFrom(OptionsMatches(s, 1), timestamp, 1)

----------------------------------------------------------------------------
(* Part C: extractFromAIMessage, step 2: /\*\*([^*]+)\*\*:/g *)

\* The matched substrings: two stars, one or more characters that are no star,
\* two stars, and a colon behind the closing stars.
RECURSIVE BoldMatches(_, _)
BoldMatches(s, i) ==
    IF i > Len(s) THEN <<>>
    ELSE IF /\ At(s, i) = "*" /\ At(s, i + 1) = "*"
            /\ RunEndNot(s, i + 2, {"*"}) > i + 2
            /\ At(s, RunEndNot(s, i + 2, {"*"})) = "*"
            /\ At(s, RunEndNot(s, i + 2, {"*"}) + 1) = "*"
            /\ At(s, RunEndNot(s, i + 2, {"*"}) + 2) = ":"
         THEN <<SubSeq(s, i, RunEndNot(s, i + 2, {"*"}) + 2)>>
                  \o BoldMatches(s, RunEndNot(s, i + 2, {"*"}) + 3)
         ELSE BoldMatches(s, i + 1)

\* match.replace(/\*\*/g, '').replace(/:$/, '').trim()
BoldLabel(match) ==
    LET bare == ReplaceAll(match, <<"*", "*">>)
    IN TrimText(IF bare # <<>> /\ bare[Len(bare)] = ":"
                THEN SubSeq(bare, 1, Len(bare) - 1)
                ELSE bare)

\* The type decided by the keywords of the label.
BoldType(label) ==
    LET lowerLabel == ToLowerCase(label)
    IN IF \/ Includes(lowerLabel, <<"p", "r", "o">>)
          \/ Includes(lowerLabel, <<"a", "d", "v", "a", "n", "t", "a", "g", "e">>)
          \/ Includes(lowerLabel, <<"b", "e", "n", "e", "f", "i", "t">>)
       THEN "pro"
       ELSE IF \/ Includes(lowerLabel, <<"c", "o", "n">>)
               \/ Includes(lowerLabel, <<"d", "i", "s", "a", "d", "v", "a", "n", "t", "a", "g", "e">>)
               \/ Includes(lowerLabel, <<"r", "i", "s", "k">>)
            THEN "con"
            ELSE "option"

\* boldHeaders.forEach((match, i) => ...), from header number i on.
RECURSIVE ExtractBold(_, _, _, _)
ExtractBold(matches, i, nodes, timestamp) ==
    IF i > Len(matches) THEN nodes
    ELSE IF Len(BoldLabel(matches[i])) < 40 /\ ~HasName(nodes, BoldLabel(matches[i]))
         THEN ExtractBold(matches, i + 1,
                          Append(nodes, Node(Id("bold", timestamp, i - 1, 0),
                                             BoldLabel(matches[i]),
                                             BoldType(BoldLabel(matches[i])), 6)),
                          timestamp)
         ELSE ExtractBold(matches, i + 1, nodes, timestamp)

----------------------------------------------------------------------------
(* Part C: extractFromAIMessage, steps 3 and 4: the exec loops               *)

\* Characters the source file does not hold as themselves.
ACIRC == "acirc"
EURO == "euro"
CENT == "cent"
DOT == "bullet"

\* The class [-*...] of the bullet pattern as the source file has it: the
\* bullet character was saved as three other characters.
BulletMarks == {"-", "*", ACIRC, EURO, CENT}

LineEnd == {".", "\n"}

NoMatch == [ok |-> FALSE, group |-> <<>>, lastIndex |-> 0]
Match(group, lastIndex) == [ok |-> TRUE, group |-> group, lastIndex |-> lastIndex]

Min(a, b) == IF a <= b THEN a ELSE b

\* \s*[-*...]\s+([A-Z][^.\n]{2,40})(?:\n|$) tried at q, behind the anchor: a is
\* the mark, c the capital, e the end of the run behind it.  The match takes
\* the line break that ends it.
BulletAt(s, a, c, e) ==
    IF /\ At(s, a) \in BulletMarks
       /\ c > a + 1
       /\ At(s, c) \in UpperSet
       /\ e - (c + 1) >= 2 /\ e - (c + 1) <= 40
       /\ At(s, e) \in {"\n", "EOF"}
    THEN Match(SubSeq(s, c, e - 1), IF e <= Len(s) THEN e + 1 ELSE e)
    ELSE NoMatch

TryBullet(s, q) ==
    BulletAt(s, RunEnd(s, q, Space),
             RunEnd(s, RunEnd(s, q, Space) + 1, Space),
             RunEndNot(s, RunEnd(s, RunEnd(s, q, Space) + 1, Space) + 1, LineEnd))

\* Up to two optional stars at position i.
Stars(s, i) == IF At(s, i) # "*" THEN 0 ELSE IF At(s, i + 1) # "*" THEN 1 ELSE 2

\* \s*\d+\.\s+\*?\*?([A-Z][^.\n]{2,40})\*?\*? tried at q: a is the first digit,
\* d the dot, c the capital behind the optional stars, e the end of the run.
NumberedAt(s, a, d, c0, c, e) ==
    IF /\ d > a
       /\ At(s, d) = "."
       /\ c0 > d + 1
       /\ At(s, c) \in UpperSet
       /\ e - (c + 1) >= 2
    THEN Match(SubSeq(s, c, c + Min(e - (c + 1), 40)),
               c + 1 + Min(e - (c + 1), 40) + Stars(s, c + 1 + Min(e - (c + 1), 40)))
    ELSE NoMatch

NumberedFrom(s, a, d, c0) ==
    NumberedAt(s, a, d, c0, c0 + Stars(s, c0),
               RunEndNot(s, c0 + Stars(s, c0) + 1, LineEnd))

TryNumbered(s, q) ==
    NumberedFrom(s, RunEnd(s, q, Space),
                 RunEnd(s, RunEnd(s, q, Space), Digits),
                 RunEnd(s, RunEnd(s, RunEnd(s, q, Space), Digits) + 1, Space))

TryLine(kind, s, q) == IF kind = "bullet" THEN TryBullet(s, q) ELSE TryNumbered(s, q)

\* pattern.exec(text) from lastIndex p on (positions from 1): the leftmost
\* match whose anchor (?:^|\n) is the start of the text or a line break at or
\* behind p.
RECURSIVE Exec(_, _, _)
Exec(kind, s, p) ==
    IF p > Len(s) THEN NoMatch
    ELSE IF p = 1 /\ TryLine(kind, s, 1).ok THEN TryLine(kind, s, 1)
    ELSE IF s[p] = "\n" /\ TryLine(kind, s, p + 1).ok THEN TryLine(kind, s, p + 1)
    ELSE Exec(kind, s, p + 1)

\* The body of the two while loops: the item of a match becomes a node when it
\* has few words and no node has its name yet.
PushItem(kind, nodes, item, timestamp) ==
    IF WordCount(item) <= (IF kind = "bullet" THEN 5 ELSE 6) /\ ~HasName(nodes, item)
    THEN Append(nodes, Node(Id(IF kind = "bullet" THEN "bullet" ELSE "num",
                               timestamp, Len(nodes), 0),
                            item, "option", IF kind = "bullet" THEN 5 ELSE 6))
    ELSE nodes

ItemOf(kind, group) ==
    IF kind = "bullet" THEN TrimText(group) ELSE TrimText(ReplaceAll(group, <<"*", "*">>))

RECURSIVE ExecLoop(_, _, _, _, _)
AfterExec(kind, s, m, nodes, timestamp) ==
    IF ~m.ok THEN nodes
    ELSE ExecLoop(kind, s, m.lastIndex,
                  PushItem(kind, nodes, ItemOf(kind, m.group), timestamp), timestamp)

ExecLoop(kind, s, p, nodes, timestamp) == AfterExec(kind, s, Exec(kind, s, p), nodes, timestamp)

----------------------------------------------------------------------------
(* Part C: extractFromAIMessage, step 5:                                      *)
(* /(?:recommend|suggest|best option|my choice)[:\s]+\*?\*?([^.\n]+)/i        *)

RecKeywords == <<<<"r", "e", "c", "o", "m", "m", "e", "n", "d">>,
                 <<"s", "u", "g", "g", "e", "s", "t">>,
                 <<"b", "e", "s", "t", " ", "o", "p", "t", "i", "o", "n">>,
                 <<"m", "y", " ", "c", "h", "o", "i", "c", "e">>>>

\* [^.\n]+ can start at g.
RecOk(s, g) == At(s, g) \notin {".", "\n", "EOF"}

\* Where the group starts when [:\s]+ ends before pos: behind two stars, else
\* behind one, else at pos; 0 when the group cannot start.
RecGroupStart(s, pos) ==
    IF At(s, pos) = "*" /\ At(s, pos + 1) = "*" /\ RecOk(s, pos + 2) THEN pos + 2
    ELSE IF At(s, pos) = "*" /\ RecOk(s, pos + 1) THEN pos + 1
    ELSE IF RecOk(s, pos) THEN pos
    ELSE 0

\* [:\s]+ is greedy and gives characters back until the rest matches; j is the
\* position behind the keyword.
RECURSIVE RecBacktrack(_, _, _)
RecBacktrack(s, j, pos) ==
    IF pos <= j THEN 0
    ELSE IF RecGroupStart(s, pos) # 0 THEN RecGroupStart(s, pos)
    ELSE RecBacktrack(s, j, pos - 1)

\* The start of the group of a match whose keyword starts at i, 0 if none.
RecAt(s, i) ==
    IF \E k \in 1..Len(RecKeywords) : MatchAtCI(s, i, RecKeywords[k])
    THEN LET k == CHOOSE k \in 1..Len(RecKeywords) : MatchAtCI(s, i, RecKeywords[k])
         IN RecBacktrack(s, i + Len(RecKeywords[k]),
                         RunEnd(s, i + Len(RecKeywords[k]), Space \cup {":"}))
    ELSE 0

\* text.match(recPattern): the group of the leftmost match.
RECURSIVE RecMatch(_, _)
RecMatch(s, i) ==
    IF i > Len(s) THEN NoMatch
    ELSE IF RecAt(s, i) # 0
         THEN Match(SubSeq(s, RecAt(s, i), RunEndNot(s, RecAt(s, i), LineEnd) - 1), 0)
         ELSE RecMatch(s, i + 1)

\* recMatch[1].replace(/\*\*/g, '').trim().slice(0, 40)
RecName(group) == Slice0(TrimText(ReplaceAll(group, <<"*", "*">>)), 40)

\* nodes.find(n => n.name.toLowerCase().includes(recName.toLowerCase()) ||
\*                 recName.toLowerCase().includes(n.name.toLowerCase()))
Names(nodes, n, recName) ==
    \/ Includes(ToLowerCase(nodes[n].name), ToLowerCase(recName))
    \/ Includes(ToLowerCase(recName), ToLowerCase(nodes[n].name))

MarkRecommended(nodes, recName, timestamp) ==
    IF recName = <<>> THEN nodes
    ELSE IF \E n \in 1..Len(nodes) : Names(nodes, n, recName)
         THEN LET existing == CHOOSE n \in 1..Len(nodes) :
                                 /\ Names(nodes, n, recName)
                                 /\ \A k \in 1..(n - 1) : ~Names(nodes, k, recName)
              IN [nodes EXCEPT ![existing].isRecommendation = TRUE,
                               ![existing].weight = 10]
         ELSE Append(nodes, [Node(Id("rec", timestamp, 0, 0), recName, "option", 10)
                                EXCEPT !.isRecommendation = TRUE])

ExtractRecommendation(s, nodes, timestamp) ==
    IF RecMatch(s, 1).ok
    THEN MarkRecommended(nodes, RecName(RecMatch(s, 1).group), timestamp)
    ELSE nodes

\* extractFromAIMessage (instantMindMap.ts:89-198); timestamp is its Date.now().
ExtractFromAIMessage(s, timestamp) ==
    ExtractRecommendation(s,
        ExecLoop("numbered", s, 1,
            ExecLoop("bullet", s, 1,
                ExtractBold(BoldMatches(s, 1), 1, ExtractOptions(s, timestamp), timestamp),
                timestamp),
            timestamp),
        timestamp)

----------------------------------------------------------------------------
(* Part C: extractMainTopic (instantMindMap.ts:58-84) *)

TopicChars == WordChars \cup Space

\* The largest e in (j, hi] at which pat starts, 0 if there is none: the end of
\* a greedy ([\w\s]+) that pat must follow.
RECURSIVE LastBefore(_, _, _, _)
LastBefore(s, j, e, pat) ==
    IF e <= j THEN 0
    ELSE IF MatchAtCI(s, e, pat) THEN e
    ELSE LastBefore(s, j, e - 1, pat)

\* ([\w\s]+) from j on: the whole run, if it is not empty.
RunGroup(s, j) ==
    IF RunEnd(s, j, TopicChars) > j
    THEN Match(SubSeq(s, j, RunEnd(s, j, TopicChars) - 1), 0)
    ELSE NoMatch

\* ([\w\s]+) from j on, followed by pat.
RunGroupBefore(s, j, pat) ==
    IF LastBefore(s, j, RunEnd(s, j, TopicChars), pat) # 0
    THEN Match(SubSeq(s, j, LastBefore(s, j, RunEnd(s, j, TopicChars), pat) - 1), 0)
    ELSE NoMatch

HelpMe == <<"h", "e", "l", "p", " ", "m", "e", " ">>
Verbs == <<<<"d", "e", "c", "i", "d", "e">>, <<"c", "h", "o", "o", "s", "e">>, <<"p", "i", "c", "k">>>>

\* (?:on |about )?([\w\s]+) from v on: the optional words are taken when the
\* group can still start behind them.
HelpGroup(s, v) ==
    IF MatchAtCI(s, v, <<"o", "n", " ">>) /\ RunGroup(s, v + 3).ok THEN RunGroup(s, v + 3)
    ELSE IF MatchAtCI(s, v, <<"a", "b", "o", "u", "t", " ">>) /\ RunGroup(s, v + 6).ok THEN RunGroup(s, v + 6)
    ELSE RunGroup(s, v)

\* Pattern n of the list tried at position i; the group is match[2] || match[1].
TopicAt(n, s, i) ==
    CASE n = 1 -> IF MatchAtCI(s, i, <<"s", "h", "o", "u", "l", "d", " ", "i", " ">>) THEN RunGroup(s, i + 9) ELSE NoMatch
      [] n = 2 -> IF /\ MatchAtCI(s, i, HelpMe)
                     /\ \E k \in 1..Len(Verbs) :
                           MatchAtCI(s, i + Len(HelpMe), Verbs[k] \o <<" ">>)
                  THEN LET k == CHOOSE k \in 1..Len(Verbs) :
                                   MatchAtCI(s, i + Len(HelpMe), Verbs[k] \o <<" ">>)
                       IN HelpGroup(s, i + Len(HelpMe) + Len(Verbs[k]) + 1)
                  ELSE NoMatch
      [] n = 3 -> IF MatchAtCI(s, i, <<"c", "h", "o", "o", "s", "i", "n", "g", " ", "b", "e", "t", "w", "e", "e", "n", " ">>) THEN RunGroup(s, i + 17) ELSE NoMatch
      [] n = 4 -> IF MatchAtCI(s, i, <<"w", "h", "a", "t", " ">>)
                  THEN RunGroupBefore(s, i + 5, <<" ", "s", "h", "o", "u", "l", "d">>)
                  ELSE NoMatch
      [] n = 5 -> IF MatchAtCI(s, i, <<"b", "e", "s", "t", " ">>)
                  THEN RunGroupBefore(s, i + 5, <<" ", "f", "o", "r">>)
                  ELSE NoMatch

\* firstMsg.match(pattern): the leftmost match of pattern n.
RECURSIVE TopicMatch(_, _, _)
TopicMatch(n, s, i) ==
    IF i > Len(s) THEN NoMatch
    ELSE IF TopicAt(n, s, i).ok THEN TopicAt(n, s, i)
    ELSE TopicMatch(n, s, i + 1)

\* topic.charAt(0).toUpperCase() + topic.slice(1)
Capitalize(topic) == IF topic = <<>> THEN <<>> ELSE <<Upper(topic[1])>> \o Tail(topic)

\* The fallback: the first four words, cut to 30 characters and "...".
FirstWords(firstMsg) ==
    LET words == JoinSpace(SubSeq(SplitSpaces(firstMsg), 1, Min(4, Len(SplitSpaces(firstMsg)))))
    IN IF Len(words) > 30 THEN Slice0(words, 30) \o <<".", ".", ".">> ELSE words

\* for (const pattern of patterns) ..., from pattern n on.
RECURSIVE TopicFrom(_, _)
TopicFrom(n, firstMsg) ==
    IF n > 5 THEN FirstWords(firstMsg)
    ELSE IF TopicMatch(n, firstMsg, 1).ok
         THEN Capitalize(TrimText(TopicMatch(n, firstMsg, 1).group))
         ELSE TopicFrom(n + 1, firstMsg)

Decision == <<"D", "e", "c", "i", "s", "i", "o", "n">>

ExtractMainTopic(userMessages) ==
    IF userMessages = <<>> THEN Decision ELSE TopicFrom(1, userMessages[1].text)

----------------------------------------------------------------------------
(* Part C: generateInstantMindMap (instantMindMap.ts:10-53) *)

ThoughtSpace == <<"T", "h", "o", "u", "g", "h", "t", " ", "S", "p", "a", "c", "e">>

Root == Node(Id("root-instant", 0, 0, 0), ThoughtSpace, "root", 10)

\* messages.filter(m => m.role === r)
RECURSIVE FilterRole(_, _)
FilterRole(msgs, r) ==
    IF msgs = <<>> THEN <<>>
    ELSE IF Head(msgs).role = r THEN <<Head(msgs)>> \o FilterRole(Tail(msgs), r)
    ELSE FilterRole(Tail(msgs), r)

\* aiMessages.forEach((msg, idx) => children = [...children, ...extracted]),
\* from message idx on; clock[idx + 1] is the Date.now() of that call.
RECURSIVE MinedChildren(_, _, _)
MinedChildren(aiMessages, idx, clock) ==
    IF idx > Len(aiMessages) THEN <<>>
    ELSE ExtractFromAIMessage(aiMessages[idx].text, clock[idx + 1])
             \o MinedChildren(aiMessages, idx + 1, clock)

\* options[0].isRecommendation = true; options[0].weight = 10
PromoteFirstOption(children) ==
    IF \E c \in 1..Len(children) : children[c].type = "option"
    THEN LET first == CHOOSE c \in 1..Len(children) :
                          /\ children[c].type = "option"
                          /\ \A k \in 1..(c - 1) : children[k].type # "option"
         IN [children EXCEPT ![first].isRecommendation = TRUE, ![first].weight = 10]
    ELSE children

\* instantMindMap.ts:21-52, behind the early return; clock[1] is the Date.now()
\* of the topic id.
TopicTree(msgs, clock) ==
    IF ExtractMainTopic(FilterRole(msgs, "user")) # <<>>
    THEN [Root EXCEPT !.children =
             <<[Node(Id("topic", clock[1], 0, 0),
                     ExtractMainTopic(FilterRole(msgs, "user")), "topic", 8)
                   EXCEPT !.children =
                       PromoteFirstOption(
                           MinedChildren(FilterRole(msgs, "model"), 1, clock))]>>]
    ELSE Root

\* A generateInstantMindMap without the early return for an empty list.
GenerateInstantMindMap_noEarlyReturn(msgs, clock) == TopicTree(msgs, clock)

GenerateInstantMindMap(msgs, clock) ==
    IF Len(msgs) = 0 THEN Root ELSE TopicTree(msgs, clock)

----------------------------------------------------------------------------
(* Part C: one call of generateInstantMindMap *)

MaxConversation == 2   \* messages in the conversation handed to the extractor
MaxClock == 2          \* distinct values Date.now() returns during one call

\* Texts of user messages: for topic patterns 1, 2 and 5, one that leaves
\* pattern 1 an empty topic, and one for the fallback.
UserTexts ==
  { <<"S", "h", "o", "u", "l", "d", " ", "I", " ", "b", "u", "y", " ", "a", " ", "c", "a", "r", "?">>,
    <<"h", "e", "l", "l", "o">>,
    <<"s", "h", "o", "u", "l", "d", " ", "i", " ", " ", "?">>,
    <<"h", "e", "l", "p", " ", "m", "e", " ", "p", "i", "c", "k", " ", "o", "n", " ">>,
    <<"b", "e", "s", "t", " ", "l", "a", "p", "t", "o", "p", " ", "f", "o", "r", " ", "m", "e">> }

\* Texts of assistant messages: option brackets (with and without a
\* recommendation behind them, with eight choices), bold headers with the colon
\* inside and outside the stars, bullet and numbered lists, a recommendation of
\* something not mined, and prose.
ModelTexts ==
  { <<"[", "O", "P", "T", "I", "O", "N", "S", ":", " ", "A", " ", "|", " ", "B", " ", "|", " ", "C", "]">>,
    <<"[", "O", "P", "T", "I", "O", "N", "S", ":", " ", "R", "e", "n", "t", " ", "|", " ", "B", "u", "y", " ", "|", " ", "W", "a", "i", "t", "]", " ", "I", " ", "r", "e", "c", "o", "m", "m", "e", "n", "d", " ", "B", "u", "y", ".">>,
    <<"*", "*", "R", "i", "s", "k", " ", "F", "a", "c", "t", "o", "r", "s", ":", "*", "*", "\n", "-", " ", "C", "o", "s", "t", "\n", "-", " ", "T", "i", "m", "e">>,
    <<"*", "*", "R", "i", "s", "k", " ", "F", "a", "c", "t", "o", "r", "s", "*", "*", ":", " ", "m", "a", "n", "y">>,
    <<"S", "u", "r", "e", ",", " ", "t", "e", "l", "l", " ", "m", "e", " ", "m", "o", "r", "e", ".">>,
    <<"1", ".", " ", "A", "l", "p", "h", "a", "\n", "2", ".", " ", "*", "*", "B", "e", "t", "a", "*", "*", "\n", "3", ".", " ", "G", "a", "m", "m", "a">>,
    <<"*", "*", "P", "r", "o", "s", "*", "*", ":", " ", "x", "\n", "*", "*", "D", "i", "s", "a", "d", "v", "a", "n", "t", "a", "g", "e", "s", "*", "*", ":", " ", "y", "\n", "*", "*", "C", "o", "n", "s", "*", "*", ":", " ", "z">>,
    <<"[", "o", "p", "t", "i", "o", "n", "s", ":", " ", "A", " ", "|", " ", "B", " ", "|", " ", "C", " ", "|", " ", "D", " ", "|", " ", "E", " ", "|", " ", "F", " ", "|", " ", "G", " ", "|", " ", "H", "]">>,
    <<"I", " ", "s", "u", "g", "g", "e", "s", "t", ":", " ", "*", "*", "W", "a", "i", "t", "*", "*">> }

ExtractorMessages ==
    [role : {"user"}, text : UserTexts] \cup [role : {"model"}, text : ModelTexts]

Conversations ==
    UNION {[1..n -> ExtractorMessages] : n \in 0..MaxConversation}

\* The readings of Date.now() during one call: n of them, never decreasing.
Clocks(n) == {c \in [1..n -> 1..MaxClock] : \A i \in 1..(n - 1) : c[i] <= c[i + 1]}

IdleInstant ==
    /\ instMessages = <<>>
    /\ instClock = <<>>
    /\ instTree = Root
    /\ instPc = "idle"

Called ==
    /\ instMessages \in Conversations
    /\ instClock = <<>>
    /\ instTree = Root
    /\ instPc = "called"

\* The call runs to its return.
InstantReturn ==
    /\ instPc = "called"
    /\ \E clock \in Clocks(1 + Len(FilterRole(instMessages, "model"))) :
       \E tree \in {GenerateInstantMindMap(instMessages, clock)} :
          /\ instClock' = clock
          /\ instTree' = tree
    /\ instPc' = "returned"
    /\ UNCHANGED <<instMessages, appVars, jsonVars, mmVars, callVars>>

\* The caller calls again with the same messages (the list is not written
\* by the call), at the last reading of the first call or later; instClock
\* then holds the readings of both calls.
InstantAgain ==
    /\ instPc = "returned"
    /\ \E clock \in {c \in Clocks(1 + Len(FilterRole(instMessages, "model"))) :
                         c[1] >= instClock[Len(instClock)]} :
       \E tree \in {GenerateInstantMindMap(instMessages, clock)} :
          /\ instClock' = instClock \o clock
          /\ instTree' = tree
    /\ instPc' = "returned again"
    /\ UNCHANGED <<instMessages, appVars, jsonVars, mmVars, callVars>>

----------------------------------------------------------------------------
(* Part D: the MindMap component (src/components/SWOTView.tsx) *)

\* A number held by a field of a simulation node, and the undefined of a
\* field that was never written.
Num(v) == [t |-> "number", v |-> v]
Undefined == [t |-> "undefined", v |-> 0]

\* A null entry of a children array.
NullChild == [type |-> "null"]

\* A MindMapNode as the adapter delivers it.  A missing id or name is <<>>, a
\* missing weight is 0 (both are falsy, as the tests of sanitizeData see them).
Tree(id, name, type, weight, isRecommendation, children) ==
    [id |-> id, name |-> name, type |-> type, weight |-> weight,
     isRecommendation |-> isRecommendation, children |-> children]

Dash == <<"-">>

\* parentId = 'root', the default of the outermost call.
RootId == <<"r", "o", "o", "t">>
DigitSeq == <<"0", "1", "2", "3", "4", "5", "6", "7", "8", "9">>

\* The decimal digits a template literal writes for a number.
RECURSIVE Decimal(_)
Decimal(n) ==
    IF n < 10 THEN <<DigitSeq[n + 1]>>
    ELSE Decimal(n \div 10) \o <<DigitSeq[(n % 10) + 1]>>

\* name.replace(/\s+/g, '-')
RECURSIVE DashSpaces(_)
DashSpaces(s) ==
    IF s = <<>> THEN <<>>
    ELSE IF Head(s) \in Space
         THEN Dash \o DashSpaces(SubSeq(s, RunEnd(s, 1, Space), Len(s)))
         ELSE <<Head(s)>> \o DashSpaces(Tail(s))

\* (newNode.name || 'node').replace(/\s+/g, '-').toLowerCase()
SafeName(name) ==
    ToLowerCase(DashSpaces(IF name = <<>> THEN <<"n", "o", "d", "e">> ELSE name))

\* children.filter(c => c !== null && c !== undefined)
RECURSIVE KeepChildren(_)
KeepChildren(cs) ==
    IF cs = <<>> THEN <<>>
    ELSE IF Head(cs) = NullChild THEN KeepChildren(Tail(cs))
    ELSE <<Head(cs)>> \o KeepChildren(Tail(cs))

\* newNode.children && Array.isArray(newNode.children): a node that has no
\* children property is a record without the field.
HasChildren(node) == "children" \in DOMAIN node

\* A MindMapNode without the optional children.
Childless(id, name, type, weight, isRecommendation) ==
    [id |-> id, name |-> name, type |-> type, weight |-> weight,
     isRecommendation |-> isRecommendation]

\* The ids if the index were taken before the null entries are dropped.
RECURSIVE SanitizeData_rawIndex(_, _, _, _)
SanitizeData_rawIndex(node, depth, index, parentId) ==
    LET id == IF node.id = <<>>
              THEN parentId \o Dash \o SafeName(node.name) \o Dash
                     \o Decimal(depth) \o Dash \o Decimal(index)
              ELSE node.id
        raw == IF HasChildren(node) THEN node.children ELSE <<>>
        at == [i \in 1..Len(KeepChildren(raw)) |->
                 CHOOSE k \in 1..Len(raw) :
                    /\ raw[k] # NullChild
                    /\ Len(KeepChildren(SubSeq(raw, 1, k))) = i]
    IN  [id |-> id, name |-> node.name, type |-> node.type,
         weight |-> IF node.weight = 0 THEN 1 ELSE node.weight,
         isRecommendation |-> node.isRecommendation,
         children |-> [i \in 1..Len(at) |->
                         SanitizeData_rawIndex(raw[at[i]], depth + 1, at[i] - 1, id)]]

RECURSIVE SanitizeData(_, _, _, _)
SanitizeData(node, depth, index, parentId) ==
    LET id == IF node.id = <<>>
              THEN parentId \o Dash \o SafeName(node.name) \o Dash
                     \o Decimal(depth) \o Dash \o Decimal(index)
              ELSE node.id
        kept == IF HasChildren(node) THEN KeepChildren(node.children) ELSE <<>>
    IN  [id |-> id, name |-> node.name, type |-> node.type,
         weight |-> IF node.weight = 0 THEN 1 ELSE node.weight,
         isRecommendation |-> node.isRecommendation,
         children |-> [i \in 1..Len(kept) |->
                         SanitizeData(kept[i], depth + 1, i - 1, id)]]

\* const n = { ...currentNode }: the copy has no x, y, vx, vy yet.
FlatNode(node) ==
    [id |-> node.id, name |-> node.name, type |-> node.type,
     weight |-> node.weight, isRecommendation |-> node.isRecommendation,
     children |-> node.children,
     x |-> Undefined, y |-> Undefined, vx |-> Undefined, vy |-> Undefined,
     fx |-> Undefined, fy |-> Undefined]

\* traverse: the nodes in pre-order.
RECURSIVE FlattenNodes(_)
RECURSIVE FlattenChildren(_)
FlattenNodes(node) == <<FlatNode(node)>> \o FlattenChildren(node.children)

FlattenChildren(cs) ==
    IF cs = <<>> THEN <<>>
    ELSE IF Head(cs) = NullChild THEN FlattenChildren(Tail(cs))
    ELSE FlattenNodes(Head(cs)) \o FlattenChildren(Tail(cs))

\* traverse: one link per parent and child, pushed before the child is visited.
RECURSIVE FlattenLinks(_)
RECURSIVE ChildLinks(_, _)
FlattenLinks(node) == ChildLinks(node.id, node.children)

ChildLinks(sourceId, cs) ==
    IF cs = <<>> THEN <<>>
    ELSE IF Head(cs) = NullChild THEN ChildLinks(sourceId, Tail(cs))
    ELSE (IF sourceId # <<>> /\ Head(cs).id # <<>>
          THEN <<[source |-> sourceId, target |-> Head(cs).id]>>
          ELSE <<>>)
           \o FlattenLinks(Head(cs)) \o ChildLinks(sourceId, Tail(cs))

FlattenGraph(node) == [nodes |-> FlattenNodes(node), links |-> FlattenLinks(node)]

\* new Map(nodesRef.current.filter(n => n && n.id).map(n => [n.id, n])): of
\* two entries with one key the later one stays.
OldNodesMap(ref) ==
    [i \in {ref[k].id : k \in {j \in 1..Len(ref) : ref[j].id # <<>>}} |->
       ref[CHOOSE k \in 1..Len(ref) :
             ref[k].id = i /\ \A j \in (k + 1)..Len(ref) : ref[j].id # i]]

\* A merge that hands on the new nodes as they are.
Merge_fresh(nodes, old) == nodes

\* nodes.map(newNode => ...): a node whose id is in the map takes x, y, vx and
\* vy of the node kept there.
Merge(nodes, old) ==
    [k \in 1..Len(nodes) |->
       IF nodes[k].id = <<>> THEN nodes[k]
       ELSE IF nodes[k].id \in DOMAIN old
            THEN [nodes[k] EXCEPT !.x = old[nodes[k].id].x,
                                  !.y = old[nodes[k].id].y,
                                  !.vx = old[nodes[k].id].vx,
                                  !.vy = old[nodes[k].id].vy]
            ELSE nodes[k]]

\* The indices of the merged array at which the callback of nodes.map
\* returns the object oldNode itself, so that what is written to the new
\* working set afterwards is written to an object of the previous one: a
\* matched node is an object literal and an unmatched one is newNode, the
\* copy flattenGraph made.
MergeAliases_matched(nodes, old) ==
    {k \in 1..Len(nodes) : nodes[k].id # <<>> /\ nodes[k].id \in DOMAIN old}

MergeAliases(nodes, old) == {}

\* Where simulation.nodes() puts a node without a position: on a spiral, by
\* its index in the array (the coordinates are rounded).
PlacementX == <<7, -9, 1, 11>>
PlacementY == <<0, 8, -16, 15>>

\* simulation.nodes(nodes): a node without x or y is placed, a node without
\* vx or vy starts at rest; the objects of the array are written in place.
SimulationNodes(nodes) ==
    [k \in 1..Len(nodes) |->
       LET placed == IF nodes[k].x = Undefined \/ nodes[k].y = Undefined
                     THEN [nodes[k] EXCEPT !.x = Num(PlacementX[k]),
                                           !.y = Num(PlacementY[k])]
                     ELSE nodes[k]
       IN  IF placed.vx = Undefined \/ placed.vy = Undefined
           THEN [placed EXCEPT !.vx = Num(0), !.vy = Num(0)]
           ELSE placed]

\* What a tick of the simulation, or a drag, can leave in a node.
Kinematics ==
    { [x |-> Num(12), y |-> Num(5), vx |-> Num(1), vy |-> Num(0)],
      [x |-> Num(-3), y |-> Num(20), vx |-> Num(0), vy |-> Num(-2)] }


\* The trees the adapter delivers: two options; one option renamed and
\* promoted, one gone and one new; an option moved below another; a null
\* child beside a child without id and weight.  The ids of a tree are
\* pairwise distinct, as the Node type asks.
Trees ==
    { Tree(<<"r">>, <<"D", "e", "c", "i", "d", "e">>, "root", 10, FALSE,
           << Tree(<<"a">>, <<"B", "u", "y">>, "option", 7, FALSE, <<>>),
              Tree(<<"b">>, <<"R", "e", "n", "t">>, "option", 6, FALSE, <<>>) >>),
      Tree(<<"r">>, <<"D", "e", "c", "i", "d", "e">>, "root", 10, FALSE,
           << Tree(<<"c">>, <<"W", "a", "i", "t">>, "option", 5, FALSE, <<>>),
              Tree(<<"a">>, <<"B", "u", "y", " ", "n", "o", "w">>, "option", 10, TRUE, <<>>) >>),
      Tree(<<"r">>, <<"D", "e", "c", "i", "d", "e">>, "root", 10, FALSE,
           << Tree(<<"b">>, <<"R", "e", "n", "t">>, "option", 6, FALSE,
                   << Tree(<<"a">>, <<"B", "u", "y">>, "pro", 3, FALSE, <<>>) >>) >>),
      Tree(<<"r">>, <<"D", "e", "c", "i", "d", "e">>, "root", 10, FALSE,
           << NullChild,
              Tree(<<>>, <<"N", "e", "w", " ", " ", "C", "a", "r">>, "option", 0, FALSE, <<>>),
              Tree(<<"a">>, <<"B", "u", "y">>, "option", 7, FALSE, <<>>) >>) }

\* Trees the adapter can deliver as well, since it returns the decoded
\* answer as it is: two options with one id; an option without id beside
\* one whose id is the id sanitizeData makes up for it.
DuplicateTrees ==
    { Tree(<<"r">>, <<"D", "e", "c", "i", "d", "e">>, "root", 10, FALSE,
           << Tree(<<"a">>, <<"B", "u", "y">>, "option", 7, FALSE, <<>>),
              Tree(<<"a">>, <<"R", "e", "n", "t">>, "option", 6, FALSE, <<>>) >>),
      Tree(<<"r">>, <<"D", "e", "c", "i", "d", "e">>, "root", 10, FALSE,
           << Tree(<<>>, <<"B", "u", "y">>, "option", 7, FALSE, <<>>),
              Tree(<<"r", "-", "b", "u", "y", "-", "1", "-", "0">>, <<"R", "e", "n", "t">>,
                   "option", 6, FALSE, <<>>) >>) }

LayoutModes == {"chaos", "organized"}

\* simulationRef.current is null before the first run of the main effect; a
\* force that is null or was never set is "none".
NoForce == [force |-> "none"]

NoForces ==
    [charge |-> NoForce, center |-> NoForce, collide |-> NoForce,
     x |-> NoForce, y |-> NoForce, link |-> NoForce]

\* The forces if the branch of organized mode only set the targets.
ModeForces_keepsRepulsion(mode, before) ==
    [charge |-> [strength |-> -800],
     center |-> before.center,
     collide |-> [radius |-> "weight", iterations |-> 2],
     x |-> [target |-> IF mode = "organized" THEN "treeTargets" ELSE "origin",
            strength |-> IF mode = "organized" THEN 30 ELSE 4],
     y |-> [target |-> IF mode = "organized" THEN "treeTargets" ELSE "origin",
            strength |-> IF mode = "organized" THEN 30 ELSE 6],
     link |-> [distance |-> "weight", strength |-> 80]]

\* The forces after the main effect ran in a mode.  Strengths are in
\* hundredths.  A simulation that does not exist yet is created with a link
\* force of the default distance (its charge and collide forces are replaced
\* or removed in the same run); organized mode sets the strength of the link
\* force and leaves its distance as it was; chaos mode leaves the center
\* force as it was.  The coordinates d3.tree gives are not computed: the
\* targets of organized mode are named "treeTargets".
ModeForces(mode, before) ==
    IF mode = "organized"
    THEN [charge |-> NoForce, center |-> NoForce, collide |-> NoForce,
          x |-> [target |-> "treeTargets", strength |-> 30],
          y |-> [target |-> "treeTargets", strength |-> 30],
          link |-> [distance |-> IF before.link = NoForce THEN "default"
                                 ELSE before.link.distance,
                    strength |-> 0]]
    ELSE [charge |-> [strength |-> -800],
          center |-> before.center,
          collide |-> [radius |-> "weight", iterations |-> 2],
          x |-> [target |-> "origin", strength |-> 4],
          y |-> [target |-> "origin", strength |-> 6],
          link |-> [distance |-> "weight", strength |-> 80]]

\* No gesture.  During a gesture list tells where the object it was started
\* on is: in the working set ("current"), in the array the last
\* reconciliation replaced ("previous") or in an array replaced before.
NoDrag == [active |-> FALSE, list |-> "none", k |-> 0, id |-> <<>>]

\* node.fx == null is false: the simulation holds the node at fx, fy.
Pinned(node) == node.fx.t = "number" /\ node.fy.t = "number"

\* Where the pointer is at a drag event.
Pointer == { [x |-> Num(40), y |-> Num(-7)] }

\* The component before its first data.
IdleMindMap ==
    /\ rawData = Null
    /\ layoutMode = "chaos"
    /\ nodesRef = <<>>
    /\ oldNodesMap = <<>>
    /\ previousNodes = <<>>
    /\ links = <<>>
    /\ shown = <<>>
    /\ exiting = <<>>
    /\ exitSelection = {}
    /\ forces = NoForces
    /\ alphaTarget = 0
    /\ drag = NoDrag

\* How many elements a per-id count holds for an id.
Count(elements, id) == IF id \in DOMAIN elements THEN elements[id] ELSE 0

\* nodeGroup.selectAll("g").data(nodes, d => d.id): of the elements with one
\* id the first is bound to the first node with that id, every other element
\* goes to the exit selection and every other node to the enter selection;
\* an element in the exit transition is selected like any other.  enter()
\* appends an element per node, exit() starts the transition that ends in
\* remove(), and the transition of the merged selection interrupts an exit
\* transition of an element that was bound again.
Join(nodes) ==
    LET ids == {nodes[k].id : k \in 1..Len(nodes)}
        elements(id) == Count(shown, id) + Count(exiting, id)
        left(id) == IF id \in ids THEN elements(id) - 1 ELSE elements(id)
        exit == {id \in DOMAIN shown \cup DOMAIN exiting : left(id) > 0}
    IN  [shown |-> [id \in ids |-> Cardinality({k \in 1..Len(nodes) : nodes[k].id = id})],
         exiting |-> [id \in exit |-> left(id)],
         exit |-> exit]

\* The main effect, run after a render with the data and mode given.  Without
\* data the component renders no svg (its elements are gone), svgRef.current
\* is null and the effect returns at once.
MainEffect(data) ==
    IF data = Null
    THEN /\ shown' = <<>>
         /\ exiting' = <<>>
         /\ exitSelection' = {}
         /\ UNCHANGED <<nodesRef, oldNodesMap, previousNodes, links, forces, drag>>
    ELSE \E flat \in {FlattenGraph(SanitizeData(data, 0, 0, RootId))} :
         \E old \in {OldNodesMap(nodesRef)} :
         \E nodes \in {Merge(flat.nodes, old)} :
         \E join \in {Join(nodes)} :
            /\ oldNodesMap' = old
            /\ nodesRef' = SimulationNodes(nodes)
            /\ previousNodes' =
                 [j \in 1..Len(nodesRef) |->
                    IF \E k \in MergeAliases(nodes, old) :
                          nodes[k].id = nodesRef[j].id /\ old[nodes[k].id] = nodesRef[j]
                    THEN nodesRef'[CHOOSE k \in MergeAliases(nodes, old) :
                                     nodes[k].id = nodesRef[j].id]
                    ELSE nodesRef[j]]
            /\ links' = flat.links
            /\ shown' = join.shown
            /\ exiting' = join.exiting
            /\ exitSelection' = join.exit
            /\ forces' = ModeForces(layoutMode', forces)
            /\ drag' = IF ~drag.active THEN drag
                       ELSE [drag EXCEPT !.list = IF @ = "current" THEN "previous"
                                                  ELSE "older"]

\* The parent renders the component with new data.
RenderData(data) ==
    /\ rawData' = data
    /\ layoutMode' = layoutMode
    /\ MainEffect(data)
    /\ alphaTarget' = alphaTarget
    /\ UNCHANGED <<appVars, jsonVars, instVars, callVars>>

\* One of the two layout buttons, which are rendered only beside data.
SetLayoutMode(mode) ==
    /\ rawData # Null
    /\ mode # layoutMode
    /\ layoutMode' = mode
    /\ rawData' = rawData
    /\ MainEffect(rawData)
    /\ alphaTarget' = alphaTarget
    /\ UNCHANGED <<appVars, jsonVars, instVars, callVars>>

\* The simulation moves a node of the array it was given; a node with fx
\* and fy is put there and stopped.
Tick(k, to) ==
    /\ k \in 1..Len(nodesRef)
    /\ nodesRef' = IF Pinned(nodesRef[k])
                   THEN [nodesRef EXCEPT ![k].x = nodesRef[k].fx, ![k].y = nodesRef[k].fy,
                                         ![k].vx = Num(0), ![k].vy = Num(0)]
                   ELSE [nodesRef EXCEPT ![k].x = to.x, ![k].y = to.y,
                                         ![k].vx = to.vx, ![k].vy = to.vy]
    /\ UNCHANGED <<rawData, layoutMode, oldNodesMap, previousNodes, links,
                   shown, exiting, exitSelection, forces, alphaTarget, drag>>
    /\ UNCHANGED <<appVars, jsonVars, instVars, callVars>>

\* The exit transition of an element ends, 500 ms after it began: remove().
ExitEnd(id) ==
    /\ id \in DOMAIN exiting
    /\ exiting' = [i \in {j \in DOMAIN exiting : j # id \/ exiting[j] > 1} |->
                     IF i = id THEN exiting[i] - 1 ELSE exiting[i]]
    /\ UNCHANGED <<rawData, layoutMode, nodesRef, oldNodesMap, previousNodes, links,
                   shown, exitSelection, forces, alphaTarget, drag>>
    /\ UNCHANGED <<appVars, jsonVars, instVars, callVars>>

\* A write of fx and fy to the object a gesture was started on.  An object
\* of an array replaced before the previous one is referenced by nothing else.
WriteSubject(fx, fy) ==
    /\ nodesRef' = IF drag'.list = "current"
                   THEN [nodesRef EXCEPT ![drag'.k].fx = fx, ![drag'.k].fy = fy]
                   ELSE nodesRef
    /\ previousNodes' = IF drag'.list = "previous"
                        THEN [previousNodes EXCEPT ![drag'.k].fx = fx, ![drag'.k].fy = fy]
                        ELSE previousNodes

\* dragstarted, on the element of node k of the working set, with no other
\* gesture active: d is the object bound to the element at the last join.
DragStart(k) ==
    /\ rawData # Null
    /\ ~drag.active
    /\ k \in 1..Len(nodesRef)
    /\ alphaTarget' = 3
    /\ drag' = [active |-> TRUE, list |-> "current", k |-> k, id |-> nodesRef[k].id]
    /\ WriteSubject(nodesRef[k].x, nodesRef[k].y)
    /\ UNCHANGED <<rawData, layoutMode, oldNodesMap, links, shown, exiting, exitSelection, forces>>
    /\ UNCHANGED <<appVars, jsonVars, instVars, callVars>>

\* dragged: d is the object the gesture was started on.
Dragged(to) ==
    /\ drag.active
    /\ drag' = drag
    /\ WriteSubject(to.x, to.y)
    /\ UNCHANGED <<rawData, layoutMode, oldNodesMap, links, shown, exiting, exitSelection,
                   forces, alphaTarget>>
    /\ UNCHANGED <<appVars, jsonVars, instVars, callVars>>

\* dragended, with no other gesture active: fx and fy become null.
DragEnd ==
    /\ drag.active
    /\ alphaTarget' = 0
    /\ drag' = [drag EXCEPT !.active = FALSE]
    /\ WriteSubject([t |-> "null", v |-> 0], [t |-> "null", v |-> 0])
    /\ UNCHANGED <<rawData, layoutMode, oldNodesMap, links, shown, exiting, exitSelection, forces>>
    /\ UNCHANGED <<appVars, jsonVars, instVars, callVars>>

----------------------------------------------------------------------------
(* Specifications *)

AppMounted ==
    /\ messages = <<>>
    /\ input = ""
    /\ isChatLoading = FALSE
    /\ mindMapData = Null
    /\ projectionData = EmptyList
    /\ comparisonData = Null
    /\ decisionTreeData = Null
    /\ swotData = Null
    /\ costBenefitData = Null
    /\ timelineData = Null
    /\ isVisLoading = FALSE
    /\ visError = NoError
    /\ sends = <<>>
    /\ timers = <<>>
    /\ analyze = [pc |-> "idle", calls |-> [k \in KindSet |-> Pending]]
    /\ lastResolved = Null
    /\ isBackgroundUpdating = FALSE
    /\ lastConversationHashRef = <<>>
    /\ background = BackgroundIdle

----------------------------------------------------------------------------
(* Part E: sanitizeData on trees as the adapter can deliver them *)

\* Children of the trees below: with and without id, name, weight and
\* children property; one with a null entry before a child of its own.
SanitizeLeaves ==
    { Childless(id, name, "option", 0, FALSE) :
         id \in {<<>>, <<"a">>}, name \in {<<>>, <<"N", "e", "w", " ", " ", "C", "a", "r">>} }
    \cup
    { Tree(id, name, "option", 7, FALSE, <<>>) :
         id \in {<<>>, <<"a">>}, name \in {<<>>, <<"N", "e", "w", " ", " ", "C", "a", "r">>} }
    \cup
    { Tree(<<>>, <<"R", "e", "n", "t">>, "option", 6, FALSE,
           <<NullChild, Childless(<<>>, <<"F", "e", "e">>, "con", 0, FALSE)>>) }

MaxSiblings == 2

SanitizeTrees ==
    { Tree(id, <<"D", "e", "c", "i", "d", "e">>, "root", 10, FALSE, children) :
         id \in {<<>>, <<"r">>},
         children \in UNION {[1..n -> SanitizeLeaves \cup {NullChild}] : n \in 0..MaxSiblings} }

IdleSanitize ==
    /\ sanNode = NullChild
    /\ sanResult = NullChild
    /\ sanPc = "idle"


\* sanitizeData(rawData) is about to run.
Sanitizing ==
    /\ sanNode \in SanitizeTrees
    /\ sanResult = NullChild
    /\ sanPc = "called"

\* const root = sanitizeData(rawData)
Sanitize ==
    /\ sanPc = "called"
    /\ sanResult' = SanitizeData(sanNode, 0, 0, RootId)
    /\ sanPc' = "sanitized"
    /\ UNCHANGED <<sanNode, appVars, jsonVars, instVars, mmVars, sseVars>>

\* sanitizeData on a tree it returned.
SanitizeAgain ==
    /\ sanPc = "sanitized"
    /\ sanResult' = SanitizeData(sanResult, 0, 0, RootId)
    /\ sanPc' = "sanitized again"
    /\ UNCHANGED <<sanNode, appVars, jsonVars, instVars, mmVars, sseVars>>

----------------------------------------------------------------------------
(* Part F: sendMessageStream on a response body that arrives in reads *)

\* The response body is a sequence of bytes: a character of ASCII is its own
\* byte, the letter e with acute accent is the two bytes C3 A9 of UTF-8.
EACUTE == "e-acute"
REPLACEMENT == "U+FFFD"

\* decoder.decode(value, {stream: true}): the characters of the bytes held
\* back and the new ones; an incomplete sequence at the end is held back.
DecodedText(bytes) ==
    LET Dropped == "dropped"
        at == [i \in 1..Len(bytes) |->
                 IF bytes[i] = "C3"
                 THEN IF i = Len(bytes) THEN Dropped
                      ELSE IF bytes[i + 1] = "A9" THEN EACUTE ELSE REPLACEMENT
                 ELSE IF bytes[i] = "A9"
                 THEN IF i > 1 /\ bytes[i - 1] = "C3" THEN Dropped ELSE REPLACEMENT
                 ELSE bytes[i]]
    IN  SelectSeq(at, LAMBDA c : c # Dropped)

HeldBytes(bytes) ==
    IF bytes # <<>> /\ bytes[Len(bytes)] = "C3" THEN <<"C3">> ELSE <<>>

DecodeBytes(bytes) == [text |-> DecodedText(bytes), held |-> HeldBytes(bytes)]

BlankLine == <<"\n", "\n">>

\* buffer.split('\n\n'): the pieces between the separators, found left to
\* right; a text without separator is one piece.
RECURSIVE SplitEvents(_)
SplitEvents(text) ==
    IF ~Contains(text, BlankLine) THEN <<text>>
    ELSE LET at == CHOOSE i \in 1..Len(text) :
                      /\ MatchAt(text, i, BlankLine)
                      /\ \A k \in 1..(i - 1) : ~MatchAt(text, k, BlankLine)
         IN  <<SubSeq(text, 1, at - 1)>> \o SplitEvents(SubSeq(text, at + 2, Len(text)))

DataPrefix == <<"d", "a", "t", "a", ":", " ">>
DoneMark == <<"[", "D", "O", "N", "E", "]">>
NoLine == <<"n", "o", " ", "l", "i", "n", "e">>

\* event.split('\n').map(line => line.trim()).find(line => line.startsWith('data: '))
DataLine(event) ==
    LET lines == TrimEach(Split(event, "\n"))
    IN  IF \E l \in 1..Len(lines) : MatchAt(lines[l], 1, DataPrefix)
        THEN lines[CHOOSE l \in 1..Len(lines) :
                      /\ MatchAt(lines[l], 1, DataPrefix)
                      /\ \A k \in 1..(l - 1) : ~MatchAt(lines[k], 1, DataPrefix)]
        ELSE NoLine

\* obj?.[key] and arr?.[0] on a decoded value; undefined when there is none.
Member(v, key) ==
    IF v.t = "object" /\ \E m \in 1..Len(v.items) : v.items[m].key = key
    THEN v.items[CHOOSE m \in 1..Len(v.items) : v.items[m].key = key].val
    ELSE JNone

First(v) == IF v.t = "array" /\ v.items # <<>> THEN v.items[1] ELSE JNone

\* A string or number of JSON is truthy unless it is '' or 0.
TruthyJSON(v) == v.t \in {"string", "number"} /\ v.s # <<>> /\ v.s # <<"0">>

\* parsed.choices?.[0]?.delta?.content || parsed.choices?.[0]?.message?.content || ''
ContentOf(value) ==
    LET delta == Member(Member(First(Member(value, <<"c", "h", "o", "i", "c", "e", "s">>)),
                               <<"d", "e", "l", "t", "a">>),
                        <<"c", "o", "n", "t", "e", "n", "t">>)
        message == Member(Member(First(Member(value, <<"c", "h", "o", "i", "c", "e", "s">>)),
                                 <<"m", "e", "s", "s", "a", "g", "e">>),
                          <<"c", "o", "n", "t", "e", "n", "t">>)
    IN  IF TruthyJSON(delta) THEN delta.s
        ELSE IF TruthyJSON(message) THEN message.s
        ELSE <<>>

\* The body of the for loop on one event: the chunks it yields (none or one).
EventChunks(event) ==
    LET dataLine == DataLine(event)
        data == TrimText(SubSeq(dataLine, 7, Len(dataLine)))
    IN  IF dataLine = NoLine THEN <<>>
        ELSE IF data = DoneMark THEN <<>>
        ELSE IF JSONParse(data).kind = "throw" THEN <<>>
        ELSE IF ContentOf(JSONParse(data).value) = <<>> THEN <<>>
        ELSE <<ContentOf(JSONParse(data).value)>>

RECURSIVE ChunksOf(_)
ChunksOf(events) ==
    IF events = <<>> THEN <<>> ELSE EventChunks(Head(events)) \o ChunksOf(Tail(events))

\* const events = buffer.split('\n\n'); buffer = events.pop() || ''
EventsOf(pieces) == SubSeq(pieces, 1, Len(pieces) - 1)

RECURSIVE Concat(_)
Concat(texts) == IF texts = <<>> THEN <<>> ELSE Head(texts) \o Concat(Tail(texts))

\* The events a response body is made of: the text of each and the chunk it
\* is to yield (none for an empty delta, [DONE] and a text that is no JSON).
DeltaA ==
    [text |-> <<"d", "a", "t", "a", ":", " ", "{", "\"", "c", "h", "o", "i", "c", "e", "s", "\"", ":", "[", "{", "\"", "d", "e", "l", "t", "a", "\"", ":", "{", "\"", "c", "o", "n", "t", "e", "n", "t", "\"", ":", "\"", "a", "\"", "}", "}", "]", "}">>,
     chunk |-> <<<<"a">>>>]
DeltaAccent ==
    [text |-> <<"d", "a", "t", "a", ":", " ", "{", "\"", "c", "h", "o", "i", "c", "e", "s", "\"", ":", "[", "{", "\"", "d", "e", "l", "t", "a", "\"", ":", "{", "\"", "c", "o", "n", "t", "e", "n", "t", "\"", ":", "\"", "C3", "A9", "\"", "}", "}", "]", "}">>,
     chunk |-> <<<<EACUTE>>>>]
MessageB ==
    [text |-> <<"d", "a", "t", "a", ":", " ", "{", "\"", "c", "h", "o", "i", "c", "e", "s", "\"", ":", "[", "{", "\"", "m", "e", "s", "s", "a", "g", "e", "\"", ":", "{", "\"", "c", "o", "n", "t", "e", "n", "t", "\"", ":", "\"", "b", "\"", "}", "}", "]", "}">>,
     chunk |-> <<<<"b">>>>]
DeltaEmpty ==
    [text |-> <<"d", "a", "t", "a", ":", " ", "{", "\"", "c", "h", "o", "i", "c", "e", "s", "\"", ":", "[", "{", "\"", "d", "e", "l", "t", "a", "\"", ":", "{", "\"", "c", "o", "n", "t", "e", "n", "t", "\"", ":", "\"", "\"", "}", "}", "]", "}">>,
     chunk |-> <<>>]
IndentedC ==
    [text |-> <<"i", "d", ":", " ", "1", "\n", " ", " ", "d", "a", "t", "a", ":", " ", "{", "\"", "c", "h", "o", "i", "c", "e", "s", "\"", ":", "[", "{", "\"", "d", "e", "l", "t", "a", "\"", ":", "{", "\"", "c", "o", "n", "t", "e", "n", "t", "\"", ":", "\"", "c", "\"", "}", "}", "]", "}">>,
     chunk |-> <<<<"c">>>>]
DoneEvent ==
    [text |-> <<"d", "a", "t", "a", ":", " ", "[", "D", "O", "N", "E", "]">>,
     chunk |-> <<>>]
Unparsable ==
    [text |-> <<"d", "a", "t", "a", ":", " ", "{", "\"", "c", "h", "o", "i", "c", "e", "s", "\"">>,
     chunk |-> <<>>]

\* Response bodies: every event but the last is followed by a blank line;
\* the last by a blank line, by one line break, or by nothing.
EventStreams ==
    [events : { <<DeltaA, MessageB, DoneEvent>>,
                <<DeltaAccent, Unparsable, DeltaA>>,
                <<IndentedC, DeltaEmpty, MessageB>> },
     ending : {BlankLine}]
    \cup
    [events : { <<DeltaA, MessageB>>, <<DeltaAccent, DoneEvent>> },
     ending : {<<"\n">>, <<>>}]

RECURSIVE BytesOfEvents(_, _)
BytesOfEvents(events, ending) ==
    IF Len(events) = 1 THEN events[1].text \o ending
    ELSE events[1].text \o BlankLine \o BytesOfEvents(Tail(events), ending)

BytesOf(stream) == BytesOfEvents(stream.events, stream.ending)

MaxReads == 2

\* The ways a body arrives: in up to MaxReads reads, none of them empty.
RECURSIVE ReadsOf(_, _)
ReadsOf(bytes, n) ==
    {<<bytes>>} \cup
    (IF n <= 1 THEN {}
     ELSE UNION {{<<SubSeq(bytes, 1, c)>> \o rest :
                     rest \in ReadsOf(SubSeq(bytes, c + 1, Len(bytes)), n - 1)} :
                    c \in 1..(Len(bytes) - 1)})

UserTurn == [role |-> "user", content |-> <<"h", "i">>]

IdleStream ==
    /\ sseStream = [events |-> <<>>, ending |-> <<>>]
    /\ sseReads = <<>>
    /\ sseDecoder = <<>>
    /\ sseBuffer = <<>>
    /\ sseYielded = <<>>
    /\ sseFullResponse = <<>>
    /\ sseHistory = <<>>
    /\ ssePc = "idle"

IdleCalls == IdleSanitize /\ IdleStream

\* sendMessageStream('hi') up to the first reader.read(): the user turn is in
\* the history, the response body is about to arrive.
Streaming ==
    /\ sseStream \in EventStreams
    /\ sseReads \in ReadsOf(BytesOf(sseStream), MaxReads)
    /\ sseDecoder = <<>>
    /\ sseBuffer = <<>>
    /\ sseYielded = <<>>
    /\ sseFullResponse = <<>>
    /\ sseHistory = <<UserTurn>>
    /\ ssePc = "reading"

\* One turn of the while loop with done = false (deepseekService.ts:188-222).
ReadValue ==
    /\ ssePc = "reading"
    /\ sseReads # <<>>
    /\ \E decoded \in {DecodeBytes(sseDecoder \o Head(sseReads))} :
       \E pieces \in {SplitEvents(sseBuffer \o decoded.text)} :
       \E chunks \in {ChunksOf(EventsOf(pieces))} :
          /\ sseDecoder' = decoded.held
          /\ sseBuffer' = pieces[Len(pieces)]
          /\ sseYielded' = sseYielded \o chunks
          /\ sseFullResponse' = sseFullResponse \o Concat(chunks)
    /\ sseReads' = Tail(sseReads)
    /\ UNCHANGED <<sseStream, sseHistory, ssePc>>
    /\ UNCHANGED <<appVars, jsonVars, instVars, mmVars, sanVars>>

\* reader.read() returns done = true (deepseekService.ts:190, 224-225).
ReadDone ==
    /\ ssePc = "reading"
    /\ sseReads = <<>>
    /\ sseHistory' = Append(sseHistory, [role |-> "assistant", content |-> sseFullResponse])
    /\ ssePc' = "returned"
    /\ UNCHANGED <<sseStream, sseReads, sseDecoder, sseBuffer, sseYielded, sseFullResponse>>
    /\ UNCHANGED <<appVars, jsonVars, instVars, mmVars, sanVars>>

\* The app after mounting, nothing else going on.
InitApp == AppMounted /\ IdleJSON /\ IdleInstant /\ IdleMindMap /\ IdleCalls

\* Chat: sends, quick actions, streams and background mind-map requests.
NextChat ==
    \/ \E t \in Inputs : HandleSend(t, MaxSends)
    \/ QuickActionClick
    \/ QuickActionFire
    \/ \E s \in DOMAIN sends : StreamChunk(s)
    \/ \E s \in DOMAIN sends : StreamEnd(s)
    \/ \E s \in DOMAIN sends : StreamFail(s)
    \/ \E s \in DOMAIN sends : MindMapResolve(s)
    \/ \E s \in DOMAIN sends : MindMapReject(s)

SpecChat == InitApp /\ [][NextChat]_vars

\* Full analysis beside the sends that build the conversation.  The chunks of
\* a stream only rewrite message texts, which handleAnalyze never inspects
\* (it looks at messages.length), so they are left to SpecChat.
NextAnalyze ==
    \/ \E t \in Inputs : HandleSend(t, MaxAnalyzeSends)
    \/ \E s \in DOMAIN sends : StreamEnd(s)
    \/ \E s \in DOMAIN sends : StreamFail(s)
    \/ \E s \in DOMAIN sends : MindMapResolve(s)
    \/ \E s \in DOMAIN sends : MindMapReject(s)
    \/ AnalyzeStart
    \/ \E ok \in BOOLEAN : AnalyzeMindMapSettle(ok)
    \/ AnalyzeFinish

SpecAnalyze == InitApp /\ [][NextAnalyze]_vars

\* Background updates beside the sends and streams that change the
\* conversation.
NextBackground ==
    \/ \E t \in Inputs : HandleSend(t, MaxBackgroundSends)
    \/ \E s \in DOMAIN sends : StreamChunk(s)
    \/ \E s \in DOMAIN sends : StreamEnd(s)
    \/ \E s \in DOMAIN sends : StreamFail(s)
    \/ \E s \in DOMAIN sends : MindMapResolve(s)
    \/ \E s \in DOMAIN sends : MindMapReject(s)
    \/ BackgroundStart(MaxBackground)
    \/ \E ok \in BOOLEAN : BackgroundSettle(ok)

SpecBackground == InitApp /\ [][NextBackground]_vars

\* The app just after handleSend("hi") was called on the mounted app: the
\* stream and the mind-map request of that send are in flight.
AppSending ==
    /\ messages = <<UserMsg("hi"), Placeholder>>
    /\ input = ""
    /\ isChatLoading = TRUE
    /\ mindMapData = Null
    /\ projectionData = EmptyList
    /\ comparisonData = Null
    /\ decisionTreeData = Null
    /\ swotData = Null
    /\ costBenefitData = Null
    /\ timelineData = Null
    /\ isVisLoading = FALSE
    /\ visError = NoError
    /\ sends = <<NewSend("send", 1, <<UserMsg("hi")>>)>>
    /\ timers = <<>>
    /\ analyze = [pc |-> "idle", calls |-> [k \in KindSet |-> Pending]]
    /\ lastResolved = Null
    /\ isBackgroundUpdating = FALSE
    /\ lastConversationHashRef = <<>>
    /\ background = BackgroundIdle

InitFailures == AppSending /\ IdleJSON /\ IdleInstant /\ IdleMindMap /\ IdleCalls

\* Everything that can fail: the stream and the mind-map request of the send,
\* a background update, full analyses.
NextFailures ==
    \/ \E s \in DOMAIN sends : StreamEnd(s)
    \/ \E s \in DOMAIN sends : StreamFail(s)
    \/ \E s \in DOMAIN sends : MindMapReject(s)
    \/ BackgroundStart(MaxFailureUpdates)
    \/ \E ok \in BOOLEAN : BackgroundSettle(ok)
    \/ AnalyzeStart
    \/ \E ok \in BOOLEAN : AnalyzeMindMapSettle(ok)
    \/ AnalyzeFinish

SpecFailures == InitFailures /\ [][NextFailures]_vars

\* One structuring call decoding its response.
NextJSON == GenerateData

\* The app is idle while one response is decoded.
InitJSON == AppMounted /\ Responded /\ IdleInstant /\ IdleMindMap /\ IdleCalls

SpecJSON == InitJSON /\ [][NextJSON]_vars

\* One call of the instant extractor on any conversation of the sets above.
InitInstant == AppMounted /\ IdleJSON /\ Called /\ IdleMindMap /\ IdleCalls

NextInstant == InstantReturn

SpecInstant == InitInstant /\ [][NextInstant]_vars

\* Two calls of generateInstantMindMap on one list of messages: every
\* assistant text, and of the user texts the one that names a topic.
InitRerun ==
    /\ AppMounted /\ IdleJSON /\ IdleMindMap /\ IdleCalls
    /\ instMessages \in
          UNION {[1..n -> {m \in ExtractorMessages : m.role = "model" \/ m.text[1] = "S"}] :
                    n \in 0..MaxConversation}
    /\ instClock = <<>>
    /\ instTree = Root
    /\ instPc = "called"

NextRerun == InstantReturn \/ InstantAgain

SpecRerun == InitRerun /\ [][NextRerun]_vars

\* sanitizeData on any tree of SanitizeTrees, and once more on its result.
InitSanitize == AppMounted /\ IdleJSON /\ IdleInstant /\ IdleMindMap /\ Sanitizing /\ IdleStream

NextSanitize == Sanitize \/ SanitizeAgain

SpecSanitize == InitSanitize /\ [][NextSanitize]_vars

\* sendMessageStream on any body of EventStreams, arriving in any reads.
InitStream == AppMounted /\ IdleJSON /\ IdleInstant /\ IdleMindMap /\ IdleSanitize /\ Streaming

NextStream == ReadValue \/ ReadDone

SpecStream == InitStream /\ [][NextStream]_vars

\* The MindMap component under data updates, mode switches and ticks.
NextMindMap ==
    \/ \E data \in Trees \cup {Null} : RenderData(data)
    \/ \E mode \in LayoutModes : SetLayoutMode(mode)
    \/ \E k \in 1..Len(nodesRef) : \E to \in Kinematics : Tick(k, to)

SpecMindMap == InitApp /\ [][NextMindMap]_vars

\* The MindMap component and its svg: data updates with the trees of two
\* options, mode switches, the ends of exit transitions, and ticks and drag
\* gestures on the node "a".
NextSurface ==
    \/ \E data \in {tree \in Trees : Len(tree.children) = 2} \cup {Null} : RenderData(data)
    \/ \E mode \in LayoutModes : SetLayoutMode(mode)
    \/ \E k \in {i \in 1..Len(nodesRef) : nodesRef[i].id = <<"a">>} :
          \E to \in Kinematics : Tick(k, to)
    \/ \E id \in DOMAIN exiting : ExitEnd(id)
    \/ \E k \in {i \in 1..Len(nodesRef) : nodesRef[i].id = <<"a">>} : DragStart(k)
    \/ \E to \in Pointer : Dragged(to)
    \/ DragEnd

SpecSurface == InitApp /\ [][NextSurface]_vars

\* The MindMap component under trees that repeat an id.  Every run of the
\* main effect then leaves one more element in the exit transition; the
\* effect runs here when the transitions have ended.
NextDuplicates ==
    \/ \E data \in DuplicateTrees : exiting = <<>> /\ RenderData(data)
    \/ \E mode \in LayoutModes : exiting = <<>> /\ SetLayoutMode(mode)
    \/ \E k \in 2..Len(nodesRef) : \E to \in Kinematics : Tick(k, to)
    \/ \E id \in DOMAIN exiting : ExitEnd(id)

SpecDuplicates == InitApp /\ [][NextDuplicates]_vars

----------------------------------------------------------------------------
(* Part A: properties *)

\* The state variable each structuring call of handleAnalyze feeds (part_000:275-281).
Field(k) ==
    CASE k = "mindmap" -> mindMapData
      [] k = "projection" -> projectionData
      [] k = "comparison" -> comparisonData
      [] k = "tree" -> decisionTreeData
      [] k = "swot" -> swotData
      [] k = "costbenefit" -> costBenefitData
      [] k = "timeline" -> timelineData

\* Call k resolved with a non-empty result and every other call rejected.
OnlyResolved(calls, k) ==
    /\ calls[k].state = "fulfilled"
    /\ calls[k].value \notin {Null, EmptyList}
    /\ \A j \in KindSet \ {k} : calls[j].state = "rejected"

\* C1: when a full-analysis run ends in which exactly one structuring call
\* resolved with a non-empty result and every other call rejected, visError is
\* null, the state field of the resolved call holds its result and every other
\* visualisation field is null or empty.
C1_OneResolvedIsShown ==
    [][(analyze.pc = "waiting" /\ analyze'.pc = "idle") =>
         \A k \in KindSet :
            OnlyResolved(analyze'.calls, k) =>
               /\ visError' = NoError
               /\ Field(k)' = analyze'.calls[k].value
               /\ \A j \in KindSet \ {k} : Field(j)' \in {Null, EmptyList}]_vars

\* C1 witness: an ended run whose only resolved call is the SWOT call, shown
\* without error beside empty fields.
C1_Witness ==
    /\ analyze.pc = "idle"
    /\ OnlyResolved(analyze.calls, "swot")
    /\ swotData = analyze.calls["swot"].value
    /\ visError = NoError
    /\ ~isVisLoading

\* The chat stream of a send can end whatever the state of its mind-map request.
C9_StreamNeverWaits ==
    \A s \in DOMAIN sends : sends[s].pc = "streaming" => ENABLED StreamEnd(s)

\* What a settling background mind-map request of send s does.
C9_Settles(s) ==
    /\ (sends'[s].mm.state = "rejected" =>
           /\ UNCHANGED <<mindMapData, visError, messages, isChatLoading>>
           /\ sends'[s].pc = sends[s].pc
           /\ sends'[s].fullResponse = sends[s].fullResponse)
    /\ (sends'[s].mm.state = "fulfilled" => mindMapData' = sends'[s].mm.value)

\* C9: when the background mind-map request of a send rejects, mindMapData and
\* visError are left as they were and the chat stream of that send is not
\* touched; when it resolves, mindMapData becomes its result; and the chat
\* stream can always proceed, whatever the state of the mind-map request.
C9_BackgroundMindMapIsolated ==
    /\ []C9_StreamNeverWaits
    /\ [][\A s \in DOMAIN sends :
            (s \in DOMAIN sends' /\ sends[s].mm.state = "pending"
                                 /\ sends'[s].mm.state # "pending") => C9_Settles(s)]_vars

\* C9 witness: the mind-map request of a send rejected, its chat stream ran to
\* completion, and the graph of another send is still shown.
C9_Witness ==
    \E s \in DOMAIN sends :
        /\ sends[s].mm.state = "rejected"
        /\ sends[s].pc = "done"
        /\ mindMapData # Null
        /\ mindMapData.n # sends[s].n

\* C10 as stated: mind-map results are applied in the order in which they
\* resolve, so whenever mindMapData is given a result, it is the result of the
\* mind-map generation that resolved last: an earlier-arriving result never
\* overwrites a later-arriving one.
C10_AppliedInResolveOrder ==
    [][(mindMapData' # mindMapData /\ mindMapData' # Null) =>
          mindMapData' = lastResolved']_vars

\* Every structuring call of a run rejected or returned an empty result.
AllFailedOrEmpty(calls) ==
    \A k \in KindSet :
       calls[k].state = "rejected" \/ calls[k].value \in {Null, EmptyList}

\* C11: visError becomes non-null only in the step that ends a full-analysis
\* run in which every structuring call rejected or returned an empty result
\* (no rejected mind-map request of a send, failed background update, failed
\* chat stream or partially failed analysis sets it), and the step that
\* starts a full-analysis run leaves it null.
C11_ErrorOnlyOnTotalFailure ==
    [][/\ (visError' # visError /\ visError' # NoError) =>
            /\ analyze.pc = "waiting" /\ analyze'.pc = "idle"
            /\ AllFailedOrEmpty(analyze'.calls)
       /\ (analyze.pc = "idle" /\ analyze'.pc = "waiting") => visError' = NoError]_vars

\* C11 witness: the error is shown after a run whose seven calls all failed,
\* in an app whose chat stream, optimistic mind-map request and background
\* update had failed without showing it.
C11_Witness ==
    /\ visError = AnalysisFailedMessage
    /\ analyze.pc = "idle"
    /\ AllFailedOrEmpty(analyze.calls)
    /\ sends[1].pc = "failed"
    /\ sends[1].mm.state = "rejected"
    /\ background.failed

\* A step that is a call of updateMindMapBackground.
BackgroundCalled == background'.calls = background.calls + 1

\* C12: a call of updateMindMapBackground made while the hash of the
\* conversation is the recorded one issues no request and changes no state; a
\* call made while no update runs and the hash differs issues the request; the
\* recorded hash changes only in the step in which a request returns a
\* result, and then to the hash that request was made for; a request that
\* fails leaves the recorded hash alone and ends the update, so it cannot make
\* a later call be skipped.
C12_SkipsOnlyOnRecordedHash ==
    [][/\ (BackgroundCalled /\ GetConversationHash(messages) = lastConversationHashRef) =>
            /\ background'.last # "issued"
            /\ background'.pc = background.pc
            /\ UNCHANGED <<messages, input, isChatLoading, mindMapData, visFields,
                           isVisLoading, visError, sends, timers, analyze,
                           isBackgroundUpdating, lastConversationHashRef>>
       /\ (BackgroundCalled /\ ~isBackgroundUpdating
              /\ GetConversationHash(messages) # lastConversationHashRef) =>
            background'.last = "issued" /\ background'.pc = "waiting"
       /\ (lastConversationHashRef' # lastConversationHashRef) =>
            /\ background.pc = "waiting" /\ background'.pc = "idle"
            /\ lastConversationHashRef' = background.currentHash
            /\ mindMapData' = Result("mindmap", 0, background.from)
       /\ BackgroundSettle(FALSE) =>
            /\ lastConversationHashRef' = lastConversationHashRef
            /\ isBackgroundUpdating' = FALSE]_vars

\* C12 witness: after one request failed and one returned a result for the
\* conversation as it is now, a third call found the recorded hash and
\* returned.
C12_Witness ==
    /\ background.last = "same"
    /\ background.failed
    /\ background.calls = 3
    /\ lastConversationHashRef # <<>>
    /\ lastConversationHashRef = GetConversationHash(messages)
    /\ mindMapData = Result("mindmap", 0, background.from)

----------------------------------------------------------------------------
(* Part B: properties *)

\* raw is prefix + J + suffix with J an object or array text that JSON.parse
\* accepts and that holds no fence, no opening bracket in the prefix and no
\* closing bracket in the suffix.
C3_WellFormed(p) ==
    /\ p.body # <<>>
    /\ p.body[1] \in {"{", "["}
    /\ p.body[Len(p.body)] \in {"}", "]"}
    /\ JSONParse(p.body).kind = "return"
    /\ ~Contains(p.body, Fence)
    /\ ~Contains(p.prefix, <<"{">>) /\ ~Contains(p.prefix, <<"[">>)
    /\ ~Contains(p.suffix, <<"}">>) /\ ~Contains(p.suffix, <<"]">>)

\* C3: for every raw text prefix + J + suffix, J a valid JSON object or array
\* text without a triple backquote, the prefix without an opening and the
\* suffix without a closing bracket, cleanAndParseJSON returns the value
\* decoded from J.
C3_DecodesEmbeddedJSON ==
    (jsonPc = "settled" /\ C3_WellFormed(parts)) =>
        /\ parsed = Return(JSONParse(parts.body).value)
        /\ generated = Resolved(JSONParse(parts.body).value)

\* C3 witness: a nested object with a closing brace inside a string, behind a
\* json fence and before prose holding an opening brace, was decoded.
C3_Witness ==
    /\ jsonPc = "settled"
    /\ C3_WellFormed(parts)
    /\ Contains(parts.prefix, FenceJson)
    /\ Contains(parts.body, <<"}", "\"">>)
    /\ Contains(parts.suffix, <<"{">>)
    /\ parsed.kind = "return"
    /\ parsed.value.t = "object"

\* The error object holds the raw text.
C4_Carries(e, raw) == "rawText" \in DOMAIN e /\ e.rawText = raw

\* cleanAndParseJSON cannot produce a value from raw: no structural start after
\* the fences are removed, or a selected slice that is not valid JSON.
C4_CannotDecode(raw) ==
    LET cleaned == ReplaceAll(ReplaceAll(raw, FenceJson), Fence)
    IN \/ (IndexOf(cleaned, "{") = 0 /\ IndexOf(cleaned, "[") = 0)
       \/ SliceAndParse(cleaned, IndexOf(cleaned, "{"), IndexOf(cleaned, "[")).kind = "throw"

\* C4 as stated: whenever cleanAndParseJSON cannot produce a value it throws an
\* error that carries the original raw text, returns no value, and the error
\* reaches the caller of the generation function.
C4_ParseErrorCarriesRawText ==
    (jsonPc = "settled" /\ content # <<>> /\ C4_CannotDecode(content)) =>
        /\ parsed.kind = "throw"
        /\ C4_Carries(parsed.error, content)
        /\ generated = RejectedWith(parsed.error)

----------------------------------------------------------------------------
(* Part C: properties *)

\* The minimal root, written out.
MinimalRoot ==
    [id |-> [prefix |-> "root-instant", ts |-> 0, i |-> 0, j |-> 0],
     name |-> <<"T", "h", "o", "u", "g", "h", "t", " ", "S", "p", "a", "c", "e">>,
     type |-> "root", weight |-> 10, isRecommendation |-> FALSE, children |-> <<>>]

\* The assistant messages of the call and the children of the topic node.
AiMessages == FilterRole(instMessages, "model")
TopicChildren == instTree.children[1].children

\* How many nodes the assistant messages before message m contributed.
RECURSIVE MinedBefore(_)
MinedBefore(m) ==
    IF m <= 1 THEN 0
    ELSE MinedBefore(m - 1)
           + Len(ExtractFromAIMessage(AiMessages[m - 1].text, instClock[m]))

\* How many choices the brackets before bracket b of text s hold.
RECURSIVE ChoicesBefore(_, _)
ChoicesBefore(s, b) ==
    IF b <= 1 THEN 0
    ELSE ChoicesBefore(s, b - 1) + Len(Choices(OptionsMatches(s, 1)[b - 1]))

\* The brackets with exactly three choices: assistant message m, bracket b.
ThreeChoiceBrackets ==
    {mb \in (1..Len(AiMessages)) \X (1..3) :
        /\ mb[2] <= Len(OptionsMatches(AiMessages[mb[1]].text, 1))
        /\ Len(Choices(OptionsMatches(AiMessages[mb[1]].text, 1)[mb[2]])) = 3}

BracketChoices(mb) == Choices(OptionsMatches(AiMessages[mb[1]].text, 1)[mb[2]])

\* The three nodes of the returned tree that stand where bracket mb was mined.
BracketNodes(mb) ==
    SubSeq(TopicChildren,
           MinedBefore(mb[1]) + ChoicesBefore(AiMessages[mb[1]].text, mb[2]) + 1,
           MinedBefore(mb[1]) + ChoicesBefore(AiMessages[mb[1]].text, mb[2]) + 3)

NamedInOrder(nodes, choices) ==
    /\ Len(nodes) = 3
    /\ \A j \in 1..3 : nodes[j].type = "option" /\ nodes[j].name = choices[j]

StrictlyDecreasing(nodes) ==
    nodes[1].weight > nodes[2].weight /\ nodes[2].weight > nodes[3].weight

RiskHeader == <<"*", "*", "R", "i", "s", "k", " ", "F", "a", "c", "t", "o", "r", "s", ":", "*", "*">>
RiskFactors == <<"R", "i", "s", "k", " ", "F", "a", "c", "t", "o", "r", "s">>

\* C6 as stated: for every assistant text containing the header
\* **Risk Factors:** (colon inside the stars), the returned tree holds a node
\* named Risk Factors, and its type is con.
C6_RiskFactorsIsCon ==
    (instPc = "returned"
        /\ \E m \in 1..Len(AiMessages) : Contains(AiMessages[m].text, RiskHeader)) =>
        /\ instTree.children # <<>>
        /\ \E c \in 1..Len(TopicChildren) :
              TopicChildren[c].name = RiskFactors /\ TopicChildren[c].type = "con"

\* C7: generateInstantMindMap called with an empty message list returns the
\* root node with id root-instant, name Thought Space, type root, weight 10
\* and no children.
C7_EmptyListGivesMinimalRoot ==
    (instPc = "returned" /\ instMessages = <<>>) => instTree = MinimalRoot

\* C7 witness: the call with the empty list has returned.
C7_Witness ==
    /\ instPc = "returned"
    /\ Len(instMessages) = 0
    /\ instTree.name = <<"T", "h", "o", "u", "g", "h", "t", " ", "S", "p", "a", "c", "e">>
    /\ instTree.children = <<>>

\* No assistant message of the call yields a mined node.
NoStructure ==
    \A m \in 1..Len(AiMessages) :
        ExtractFromAIMessage(AiMessages[m].text, instClock[m + 1]) = <<>>

\* C8 as stated: when the message list is not empty but no assistant message
\* yields a mined node, generateInstantMindMap returns the minimal root with
\* no children.
C8_NoStructureGivesMinimalRoot ==
    (instPc = "returned" /\ instMessages # <<>> /\ NoStructure) => instTree = MinimalRoot

\* A tree without its ids.
RECURSIVE Unlabelled(_)
Unlabelled(node) ==
    [name |-> node.name, type |-> node.type, weight |-> node.weight,
     isRecommendation |-> node.isRecommendation,
     children |-> [c \in 1..Len(node.children) |-> Unlabelled(node.children[c])]]

\* C18: a second call of generateInstantMindMap on the same messages returns
\* a tree of the same shape with the same name, type, weight and
\* isRecommendation at every position as the first, whatever the clock
\* returned during either call.
C18_SameTreeButIds ==
    [][(instPc = "returned" /\ instPc' = "returned again") =>
          /\ instMessages' = instMessages
          /\ Unlabelled(instTree') = Unlabelled(instTree)]_vars

\* C18 witness: the second call ran at a later reading of the clock than the
\* first and returned a topic with at least three mined nodes, one of them
\* recommended, under other ids than the first call gave.
C18_Witness ==
    /\ instPc = "returned again"
    /\ instTree.children # <<>>
    /\ Len(TopicChildren) >= 3
    /\ \E c \in 1..Len(TopicChildren) : TopicChildren[c].isRecommendation
    /\ instClock[1] = 1
    /\ instTree.children[1].id = [prefix |-> "topic", ts |-> 2, i |-> 0, j |-> 0]
    /\ \A c \in 1..Len(TopicChildren) : TopicChildren[c].id.ts = 2

\* The ids of the returned tree, in pre-order.
TreeIds ==
    <<instTree.id>>
      \o (IF instTree.children = <<>> THEN <<>>
          ELSE <<instTree.children[1].id>>
                 \o [c \in 1..Len(TopicChildren) |-> TopicChildren[c].id])

\* C19: the ids of the returned tree are pairwise distinct.
C19_IdsDistinct ==
    instPc = "returned" =>
       \A a, b \in 1..Len(TreeIds) : TreeIds[a] = TreeIds[b] => a = b

\* C19, where it holds: the ids are pairwise distinct when every assistant
\* message is mined at a reading of the clock of its own.
C19_IdsDistinctAtDistinctReadings ==
    (instPc = "returned"
       /\ \A a, b \in 2..Len(instClock) : instClock[a] = instClock[b] => a = b) =>
       \A a, b \in 1..Len(TreeIds) : TreeIds[a] = TreeIds[b] => a = b

\* What the assistant messages were mined to, before the promotion step.
Mined == MinedChildren(AiMessages, 1, instClock)

\* C20: when the recommendation matcher marked a mined node, the children of
\* the topic are the mined nodes as they are; when it marked none, the first
\* option alone is set to isRecommendation and weight 10.
C20_PromotesOnlyWithoutRecommendation ==
    (instPc = "returned" /\ instTree.children # <<>>) =>
       IF \E n \in 1..Len(Mined) : Mined[n].isRecommendation
       THEN TopicChildren = Mined
       ELSE TopicChildren = PromoteFirstOption(Mined)

\* C20, as the code has it: the first option is set to isRecommendation and
\* weight 10 whether or not the matcher marked a node.
C20_PromotesAlways ==
    (instPc = "returned" /\ instTree.children # <<>>) =>
       /\ Len(TopicChildren) = Len(Mined)
       /\ \A n \in 1..Len(Mined) :
             IF Mined[n].type = "option" /\ \A k \in 1..(n - 1) : Mined[k].type # "option"
             THEN TopicChildren[n] = [Mined[n] EXCEPT !.isRecommendation = TRUE,
                                                      !.weight = 10]
             ELSE TopicChildren[n] = Mined[n]

\* C21: every node of the returned tree has a weight from 1 to 10.
C21_WeightsInDomain ==
    instPc = "returned" =>
       /\ instTree.weight \in 1..10
       /\ instTree.children # <<>> =>
             /\ instTree.children[1].weight \in 1..10
             /\ \A c \in 1..Len(TopicChildren) : TopicChildren[c].weight \in 1..10

\* C21, where it holds: the weights are from 1 to 10 when no bracket of the
\* conversation has more than seven choices, and never above 10.
C21_WeightsInDomainUpToSeven ==
    (instPc = "returned" /\ instTree.children # <<>>) =>
       /\ \A c \in 1..Len(TopicChildren) : TopicChildren[c].weight <= 10
       /\ (\A m \in 1..Len(AiMessages) :
              \A b \in 1..Len(OptionsMatches(AiMessages[m].text, 1)) :
                 Len(Choices(OptionsMatches(AiMessages[m].text, 1)[b])) <= 7) =>
             \A c \in 1..Len(TopicChildren) : TopicChildren[c].weight \in 1..10

\* The label of a node holds one of the keywords, whatever the case.
HoldsOneOf(node, keywords) ==
    \E w \in keywords : Includes(ToLowerCase(node.name), w)

ConKeywords ==
    { <<"c", "o", "n">>, <<"d", "i", "s", "a", "d", "v", "a", "n", "t", "a", "g", "e">>,
      <<"r", "i", "s", "k">> }

ProKeywords ==
    { <<"p", "r", "o">>, <<"a", "d", "v", "a", "n", "t", "a", "g", "e">>,
      <<"b", "e", "n", "e", "f", "i", "t">> }

\* The nodes of the returned tree that were mined from bold headers.
BoldNodes ==
    IF instTree.children = <<>> THEN {}
    ELSE {TopicChildren[c] : c \in {k \in 1..Len(TopicChildren) :
                                       TopicChildren[k].id.prefix = "bold"}}

\* C22: a node mined from a bold header is a con when its label holds a con
\* keyword ("disadvantage" among them), a pro when it holds a pro keyword and
\* no con keyword, and an option when it holds none of the six.
C22_ConKeywordsGiveCon ==
    instPc = "returned" =>
       \A node \in BoldNodes :
          node.type = IF HoldsOneOf(node, ConKeywords) THEN "con"
                      ELSE IF HoldsOneOf(node, ProKeywords) THEN "pro"
                      ELSE "option"

\* C22, as the code has it: the pro keywords are tried first, so a label
\* that holds "disadvantage" holds "advantage" and is a pro.
C22_ProKeywordsFirst ==
    instPc = "returned" =>
       \A node \in BoldNodes :
          node.type = IF HoldsOneOf(node, ProKeywords) THEN "pro"
                      ELSE IF HoldsOneOf(node, ConKeywords) THEN "con"
                      ELSE "option"

\* The lines of assistant message m.
LinesOf(m) == Split(AiMessages[m].text, "\n")

\* The item of a bulleted line: what stands behind the mark and the space.
BulletItem(line) == SubSeq(line, 3, Len(line))

\* A line that starts with "-" or "*" and a space, whose item starts with a
\* capital letter, has 3 to 40 characters, no full stop and at most 5 words.
IsBulletLine(line) ==
    /\ Len(line) >= 5
    /\ line[1] \in {"-", "*"}
    /\ line[2] = " "
    /\ line[3] \in UpperSet
    /\ Len(BulletItem(line)) <= 40
    /\ \A k \in 3..Len(line) : line[k] # "."
    /\ line[Len(line)] \notin Space
    /\ WordCount(BulletItem(line)) <= 5

\* The nodes extractFromAIMessage returned for assistant message m.
MinedOf(m) == ExtractFromAIMessage(AiMessages[m].text, instClock[m + 1])

\* The item of the line has a node among those mined from message m: a node a
\* step before the bullets made, or an option of weight 5 made by the bullets.
HasBulletNode(m, line) ==
    \E n \in 1..Len(MinedOf(m)) :
       /\ MinedOf(m)[n].name = BulletItem(line)
       /\ MinedOf(m)[n].id.prefix = "bullet" =>
             (MinedOf(m)[n].type = "option" /\ MinedOf(m)[n].weight = 5)

\* C23: every bulleted line of an assistant message has a node, each line of
\* a run of consecutive bulleted lines included.
C23_EveryBulletLineMined ==
    instPc = "returned" =>
       \A m \in 1..Len(AiMessages) :
          \A l \in 1..Len(LinesOf(m)) :
             IsBulletLine(LinesOf(m)[l]) => HasBulletNode(m, LinesOf(m)[l])

\* C23, as the code has it: a bulleted line has a node when the line before
\* it is not a bulleted line, and the second line of a run has none unless its
\* name was mined otherwise.
C23_BulletLineBehindOtherLineMined ==
    instPc = "returned" =>
       \A m \in 1..Len(AiMessages) :
          \A l \in 1..Len(LinesOf(m)) :
             (IsBulletLine(LinesOf(m)[l]) /\ (l = 1 \/ ~IsBulletLine(LinesOf(m)[l - 1])))
                => HasBulletNode(m, LinesOf(m)[l])

----------------------------------------------------------------------------
(* Part D: properties *)

\* The nodes of a tree as delivered, in pre-order, null children left out.
RECURSIVE RawNodes(_)
RECURSIVE RawChildren(_)
RawNodes(node) == <<node>> \o RawChildren(node.children)

RawChildren(cs) ==
    IF cs = <<>> THEN <<>>
    ELSE IF Head(cs) = NullChild THEN RawChildren(Tail(cs))
    ELSE RawNodes(Head(cs)) \o RawChildren(Tail(cs))

\* A step in which the main effect reconciles a tree.
Reconciles ==
    /\ rawData' # Null
    /\ \/ \E data \in Trees : RenderData(data)
       \/ \E mode \in LayoutModes : SetLayoutMode(mode)

\* Node k of the new working set has x, y, vx and vy of every node of the
\* previous working set with its id.
CarriesPosition(k) ==
    \A j \in 1..Len(nodesRef) :
       nodesRef[j].id = nodesRef'[k].id =>
          /\ nodesRef'[k].x = nodesRef[j].x
          /\ nodesRef'[k].y = nodesRef[j].y
          /\ nodesRef'[k].vx = nodesRef[j].vx
          /\ nodesRef'[k].vy = nodesRef[j].vy

\* Node k of the new working set has name, type, weight and isRecommendation
\* of node k of the new tree (a weight the tree leaves out is 1).
TakesFieldsOfNewTree(k) ==
    \E raw \in {RawNodes(rawData')} :
       /\ Len(raw) = Len(nodesRef')
       /\ nodesRef'[k].name = raw[k].name
       /\ nodesRef'[k].type = raw[k].type
       /\ nodesRef'[k].isRecommendation = raw[k].isRecommendation
       /\ nodesRef'[k].weight = IF raw[k].weight = 0 THEN 1 ELSE raw[k].weight

\* C2: whenever the main effect reconciles a new tree, every node of the new
\* working set whose id is the id of a node of the previous working set
\* (nodesRef) has exactly that node's x, y, vx and vy, and its name, type,
\* weight and isRecommendation are those of the new tree.
C2_KeepsPositionById ==
    [][Reconciles =>
         \A k \in 1..Len(nodesRef') :
            (\E j \in 1..Len(nodesRef) : nodesRef[j].id = nodesRef'[k].id) =>
               CarriesPosition(k) /\ TakesFieldsOfNewTree(k)]_vars

\* The ids of a list of nodes.
Ids(nodes) == {nodes[k].id : k \in 1..Len(nodes)}

\* C13: at every reconciliation, each id of the previous working set that
\* the new flattened tree lacks is in the exit selection of that
\* reconciliation, has an element in the exit transition and is not in the
\* new working set; no id that is in both is in the exit selection.
C13_RemovedIdsExit ==
    [][Reconciles =>
         /\ \A id \in Ids(nodesRef) \ Ids(nodesRef') :
               id \in exitSelection' /\ id \in DOMAIN exiting'
         /\ \A id \in Ids(nodesRef) \cap Ids(nodesRef') : id \notin exitSelection']_vars

\* C13, where it holds: the same, for the ids that had an element when the
\* reconciliation began.
C13_ShownIdsExit ==
    [][Reconciles =>
         /\ \A id \in (Ids(nodesRef) \cap DOMAIN shown) \ Ids(nodesRef') :
               id \in exitSelection' /\ id \in DOMAIN exiting'
         /\ \A id \in Ids(nodesRef) \cap Ids(nodesRef') : id \notin exitSelection']_vars

C15_PinnedWhileDragging ==
    drag.active =>
       \A k \in 1..Len(nodesRef) : nodesRef[k].id = drag.id => Pinned(nodesRef[k])

\* C15, where it holds: a gesture pins the node at its position when it
\* starts and each drag event pins it at the pointer, as long as the working
\* set is the one the gesture started on; a tick leaves a pinned node pinned
\* and puts it at fx, fy; the end of a gesture clears fx and fy of its object
\* and sets the alpha target to 0; with no gesture in progress no node of
\* the working set is pinned and the alpha target is 0.
C15_PinnedOnUnchangedSet ==
    [][/\ (\E k \in 1..Len(nodesRef) : DragStart(k)) =>
            /\ nodesRef'[drag'.k].fx = nodesRef[drag'.k].x
            /\ nodesRef'[drag'.k].fy = nodesRef[drag'.k].y
            /\ alphaTarget' = 3
       /\ (drag.active /\ drag.list = "current" /\ \E to \in Pointer : Dragged(to)) =>
            \E to \in Pointer : nodesRef'[drag.k].fx = to.x /\ nodesRef'[drag.k].fy = to.y
       /\ (drag.active /\ drag'.active /\ drag.list = "current" /\ drag'.list = "current") =>
            Pinned(nodesRef'[drag.k])
       /\ (\E k \in 1..Len(nodesRef) : \E to \in Kinematics :
               Tick(k, to) /\ Pinned(nodesRef[k])) =>
            \A k \in 1..Len(nodesRef) :
               Pinned(nodesRef[k]) =>
                  /\ Pinned(nodesRef'[k])
                  /\ nodesRef'[k].x \in {nodesRef[k].x, nodesRef[k].fx}
       /\ ~drag'.active =>
            /\ alphaTarget' = 0
            /\ \A k \in 1..Len(nodesRef') : ~Pinned(nodesRef'[k])]_vars

\* C16: a switch of the layout mode leaves the ids of the working set as they
\* were, in their order, and every node of the new working set has x, y, vx
\* and vy of the node it replaces; after a switch to organized mode there is
\* no charge, center or collide force, the x and y forces pull to the tree
\* targets and the link force has strength 0; after a switch to chaos mode
\* the charge and collide forces are there, the x and y forces pull to the
\* origin and the link force has strength 0.8.
C16_SwitchKeepsNodesAndSetsForces ==
    [][(\E mode \in LayoutModes : SetLayoutMode(mode)) =>
         /\ layoutMode' # layoutMode
         /\ Len(nodesRef') = Len(nodesRef)
         /\ \A k \in 1..Len(nodesRef) :
               /\ nodesRef'[k].id = nodesRef[k].id
               /\ nodesRef'[k].x = nodesRef[k].x /\ nodesRef'[k].y = nodesRef[k].y
               /\ nodesRef'[k].vx = nodesRef[k].vx /\ nodesRef'[k].vy = nodesRef[k].vy
         /\ layoutMode' = "organized" =>
               /\ forces'.charge = NoForce /\ forces'.collide = NoForce
               /\ forces'.center = NoForce
               /\ forces'.x = [target |-> "treeTargets", strength |-> 30]
               /\ forces'.y = [target |-> "treeTargets", strength |-> 30]
               /\ forces'.link.strength = 0
         /\ layoutMode' = "chaos" =>
               /\ forces'.charge = [strength |-> -800]
               /\ forces'.collide = [radius |-> "weight", iterations |-> 2]
               /\ forces'.x = [target |-> "origin", strength |-> 4]
               /\ forces'.y = [target |-> "origin", strength |-> 6]
               /\ forces'.link = [distance |-> "weight", strength |-> 80]]_vars

\* C16 witness: in organized mode, without repulsion and with the link
\* distance chaos mode had set, the node "a" is where a tick had put it
\* before the switch.
C16_Witness ==
    /\ layoutMode = "organized"
    /\ forces.charge = NoForce
    /\ forces.link = [distance |-> "weight", strength |-> 0]
    /\ \E k \in 1..Len(nodesRef) : \E j \in 1..Len(previousNodes) :
          /\ nodesRef[k].id = <<"a">> /\ previousNodes[j].id = <<"a">>
          /\ nodesRef[k].x = Num(-3) /\ nodesRef[k].vy = Num(-2)
          /\ previousNodes[j].x = Num(-3)
    /\ previousNodes = [k \in 1..Len(nodesRef) |-> nodesRef[k]]
    /\ nodesRef # <<>>

\* C17: in every working set all nodes have a non-empty id and no two nodes
\* have the same id.
C17_IdsNonEmptyAndDistinct ==
    \A k \in 1..Len(nodesRef) :
       /\ nodesRef[k].id # <<>>
       /\ \A j \in 1..Len(nodesRef) : nodesRef[j].id = nodesRef[k].id => j = k

\* C17, where it holds: every node of a working set has a non-empty id, and
\* the ids of a working set are pairwise distinct whenever the ids the tree
\* came with are, and none of them is an id sanitizeData makes up.
C17_IdsNonEmpty ==
    /\ \A k \in 1..Len(nodesRef) : nodesRef[k].id # <<>>
    /\ (rawData # Null /\ rawData \in Trees) =>
          \A k, j \in 1..Len(nodesRef) : nodesRef[j].id = nodesRef[k].id => j = k

\* C2 witness: after a reconciliation a node stands where the simulation had
\* moved the previous node of its id, under the name the new tree gives it.
C2_Witness ==
    \E k \in 1..Len(nodesRef) :
       /\ nodesRef[k].id \in DOMAIN oldNodesMap
       /\ \E old \in {oldNodesMap[nodesRef[k].id]} :
             /\ [x |-> old.x, y |-> old.y, vx |-> old.vx, vy |-> old.vy] \in Kinematics
             /\ nodesRef[k].x = old.x /\ nodesRef[k].y = old.y
             /\ nodesRef[k].vx = old.vx /\ nodesRef[k].vy = old.vy
             /\ nodesRef[k].name # old.name
             /\ nodesRef[k].name = <<"B", "u", "y", " ", "n", "o", "w">>

----------------------------------------------------------------------------
(* Part A: properties of the chat list *)

\* The sends whose chunks stand in message i.
ChunkSendsOf(i) ==
    {messages[i].text[p].s : p \in {q \in 1..Len(messages[i].text) :
                                       messages[i].text[q].src = "chunk"}}

\* C25: a streamed chunk stands only in the model message that its own send
\* appended as placeholder, never in the message of another send.
C25_ChunkOnlyInOwnPlaceholder ==
    \A i \in 1..Len(messages) :
       \A s \in ChunkSendsOf(i) :
          /\ messages[i].role = "model"
          /\ i = sends[s].slot

\* C25, as the code has it: a chunk is written into the message that is last
\* when it arrives, which is the own placeholder as long as no other send
\* was started.
C25_ChunkInOwnPlaceholderWhenAlone ==
    Len(sends) = 1 =>
       \A i \in 1..Len(messages) :
          \A s \in ChunkSendsOf(i) : messages[i].role = "model" /\ i = sends[s].slot

\* The sends whose background mind-map request succeeded.
Succeeded == {s \in DOMAIN sends : sends[s].mm.state = "fulfilled"}

\* No background mind-map request is in flight or about to be started.
AllSettled ==
    /\ timers = <<>>
    /\ \A s \in DOMAIN sends : sends[s].mm.state # "pending"

\* C26: once every background mind-map request has settled, mindMapData is
\* the result of the latest send whose request succeeded, whatever the order
\* in which the requests resolved.
C26_NewestSucceededShown ==
    (AllSettled /\ Succeeded # {}) =>
       mindMapData = sends[CHOOSE s \in Succeeded : \A o \in Succeeded : o <= s].mm.value

\* C26, as the code has it: mindMapData is the result that resolved last.
C26_LastResolvedShown ==
    Succeeded # {} => mindMapData = lastResolved

\* Message b is message a, possibly with more streamed text or no longer
\* streaming.
StillThere(a, b) ==
    /\ b.role = a.role
    /\ a.role = "user" => b.text = a.text

\* Every message of the list before the step is in the list behind it, at its
\* place.
KeepsMessages ==
    /\ Len(messages') >= Len(messages)
    /\ \A i \in 1..Len(messages) : StillThere(messages[i], messages'[i])

C27_GrowsButForQuickAction ==
    [][IF Len(timers') < Len(timers)
       THEN /\ Len(messages') = Len(Head(timers).messages) + 2
            /\ \A i \in 1..Len(Head(timers).messages) : messages'[i] = Head(timers).messages[i]
       ELSE KeepsMessages]_vars

\* The stream of some send is running.
SomeStreamRunning == \E s \in DOMAIN sends : sends[s].pc = "streaming"

SomeMessageStreaming == \E i \in 1..Len(messages) : messages[i].isStreaming

\* C28: while the stream of a send is running isChatLoading is true, and when
\* none is running isChatLoading is false and no message is marked as
\* streaming, whether the streams ended or failed.
C28_LoadingWhileSending ==
    IF SomeStreamRunning THEN isChatLoading
    ELSE ~isChatLoading /\ ~SomeMessageStreaming

\* C28, as the code has it: isChatLoading is false when no stream is running,
\* and a single send whose stream ended leaves no message marked.
C28_IdleIsNotLoading ==
    /\ ~SomeStreamRunning => ~isChatLoading
    /\ (Len(sends) = 1 /\ sends[1].pc = "done" /\ sends[1].origin = "send")
          => ~SomeMessageStreaming

\* C29: the step that ends a full-analysis run sets isVisLoading to false,
\* and when every call of the run failed or returned an empty result it
\* leaves the seven data fields as they are; with fewer than two messages no
\* step starts a run or changes what a run writes.
C29_FrameOfAnalysis ==
    [][/\ (analyze.pc = "waiting" /\ analyze'.pc = "idle") =>
            /\ isVisLoading' = FALSE
            /\ AllFailedOrEmpty(analyze'.calls) => UNCHANGED <<mindMapData, visFields>>
       /\ Len(messages) < 2 =>
            UNCHANGED <<analyze, isVisLoading, visError, mindMapData, visFields>>]_vars

\* C29 witness: a run in which every call failed has ended beside the SWOT
\* result and the graph of an earlier run.
C29_Witness ==
    /\ analyze.pc = "idle"
    /\ AllFailedOrEmpty(analyze.calls)
    /\ visError = AnalysisFailedMessage
    /\ ~isVisLoading
    /\ swotData # Null
    /\ mindMapData # Null

----------------------------------------------------------------------------
(* Part E: properties *)

\* The entries of a children property that are nodes, in their order.
RawKept(node) ==
    IF HasChildren(node) THEN SelectSeq(node.children, LAMBDA c : c # NullChild) ELSE <<>>

\* out is what the claim says sanitizeData makes of raw at this depth, index
\* among the non-null siblings and parent id.
RECURSIVE SanitizedAs(_, _, _, _, _)
SanitizedAs(raw, out, depth, index, parentId) ==
    /\ out.id # <<>>
    /\ out.id = IF raw.id # <<>> THEN raw.id
                ELSE parentId \o Dash \o SafeName(raw.name) \o Dash
                       \o Decimal(depth) \o Dash \o Decimal(index)
    /\ out.weight >= 1
    /\ out.weight = IF raw.weight = 0 THEN 1 ELSE raw.weight
    /\ out.name = raw.name /\ out.type = raw.type
    /\ HasChildren(out)
    /\ Len(out.children) = Len(RawKept(raw))
    /\ \A i \in 1..Len(out.children) :
          /\ out.children[i] # NullChild
          /\ SanitizedAs(RawKept(raw)[i], out.children[i], depth + 1, i - 1, out.id)

----------------------------------------------------------------------------
(* Part F: properties *)

\* The chunks of a list of events, as the body was made of them.
RECURSIVE ChunksMadeOf(_)
ChunksMadeOf(events) ==
    IF events = <<>> THEN <<>> ELSE Head(events).chunk \o ChunksMadeOf(Tail(events))

\* The events of a body that are followed by a blank line.
Terminated(stream) ==
    IF stream.ending = BlankLine THEN stream.events
    ELSE SubSeq(stream.events, 1, Len(stream.events) - 1)

\* sendMessageStream yielded these chunks and put their concatenation into
\* the history as the assistant turn.
Delivered(chunks) ==
    /\ sseYielded = chunks
    /\ sseHistory = <<UserTurn, [role |-> "assistant", content |-> Concat(chunks)]>>

\* C30: however the body was split into reads, the call yielded the content
\* of every event once and in order, the last event of the body included, and
\* nothing for [DONE] and for events that are no JSON.
C30_EveryEventDelivered ==
    ssePc = "returned" => Delivered(ChunksMadeOf(sseStream.events))

\* C30, as the code has it: however the body was split into reads, the call
\* yielded the content of every event that is followed by a blank line, which
\* is what one read of the whole body yields; a last event without a blank
\* line behind it stays in the buffer.
C30_TerminatedEventsDelivered ==
    ssePc = "returned" =>
       /\ Delivered(ChunksMadeOf(Terminated(sseStream)))
       /\ sseYielded = ChunksOf(EventsOf(SplitEvents(DecodedText(BytesOf(sseStream)))))
       /\ sseStream.ending # BlankLine =>
             TrimText(sseBuffer) = DecodedText(sseStream.events[Len(sseStream.events)].text)
====
